---- MODULE Spec2Model ----
(***************************************************************************)
(* A model of flameeyes-paperless-automation: the identification pipeline  *)
(* (identify.py), the catalog client's lookup / create / ensure            *)
(* (session.py, utils.py), the alias resolver (config.py) and the batch    *)
(* drivers (main.py).                                                      *)
(*                                                                         *)
(* Strings are sequences of character codes, so that str.lower(), join,    *)
(* removesuffix and strftime are computed and not assumed.  Python None is *)
(* 0 for an id (server ids start at 1) and <<-1>> for a string.            *)
(***************************************************************************)
EXTENDS Integers, Sequences, FiniteSets, TLC

\* ------------------------------------------------------------------ bounds
MaxDocs == 2
MaxRuns == 2
MaxDepth == 3
MaxRefs == 2
MaxPages == 2

\* ----------------------------------------------------------------- strings
None == 0
NoneStr == <<-1>>

LowerChar(c) == IF c >= 65 /\ c <= 90 THEN c + 32 ELSE c

UpperChar(c) == IF c >= 97 /\ c <= 122 THEN c - 32 ELSE c

\* str.lower()
lower(s) == [i \in 1..Len(s) |-> LowerChar(s[i])]

IsWordChar(c) ==
    \/ (c >= 48 /\ c <= 57)
    \/ (c >= 65 /\ c <= 90)
    \/ (c >= 97 /\ c <= 122)
    \/ c = 95

\* to_slug: lower-case, then every non-word character becomes "-"
to_slug(name) ==
    [i \in 1..Len(name) |->
        IF IsWordChar(LowerChar(name[i])) THEN LowerChar(name[i]) ELSE 45]

RECURSIVE join(_, _)
\* sep.join(parts)
join(sep, parts) ==
    IF Len(parts) = 0 THEN <<>>
    ELSE IF Len(parts) = 1 THEN parts[1]
    ELSE parts[1] \o sep \o join(sep, Tail(parts))

\* s.removesuffix(suffix)
removesuffix(s, suffix) ==
    IF /\ Len(suffix) > 0
       /\ Len(s) >= Len(suffix)
       /\ SubSeq(s, Len(s) - Len(suffix) + 1, Len(s)) = suffix
    THEN SubSeq(s, 1, Len(s) - Len(suffix))
    ELSE s

\* "needle in haystack" on strings
contains(haystack, needle) ==
    \E i \in 0..(Len(haystack) - Len(needle)) :
        SubSeq(haystack, i + 1, i + Len(needle)) = needle

Digit(n) == 48 + n

\* date.strftime("%Y-%m-%d") of a date <<year, month, day>>
strftime(date) ==
    << Digit((date[1] \div 1000) % 10), Digit((date[1] \div 100) % 10),
       Digit((date[1] \div 10) % 10), Digit(date[1] % 10), 45,
       Digit((date[2] \div 10) % 10), Digit(date[2] % 10), 45,
       Digit((date[3] \div 10) % 10), Digit(date[3] % 10) >>

\* DefaultCustomField
ACCOUNT_HOLDER == <<65, 99, 99, 111, 117, 110, 116, 32, 72, 111, 108, 100, 101, 114>>
ACCOUNT_NUMBER == <<65, 99, 99, 111, 117, 110, 116, 32, 78, 117, 109, 98, 101, 114>>
DOCUMENT_NUMBER ==
    <<68, 111, 99, 117, 109, 101, 110, 116, 32, 78, 117, 109, 98, 101, 114>>

PDF_SUFFIX == <<46, 112, 100, 102>>
HOLDER_SEP == <<32, 38, 32>>
FRAGMENT_SEP == <<32, 45, 32>>

\* ------------------------------------------------------------------- state
VARIABLES
    execute,          \* Options.execute
    config,           \* Config
    users,            \* server: users
    groups,           \* server: groups
    tags,             \* server: tags
    correspondents,   \* server: correspondents
    document_types,   \* server: document types
    storage_paths,    \* server: storage paths
    custom_fields,    \* server: custom fields
    documents,        \* server: documents, by id
    pdf,              \* what the extraction engine yields for each document's file
    producer,         \* the Producer metadata entry of each document's file
    cache,            \* the session's cached_custom_field cache
    proc,             \* the running command and its position
    posts,            \* POST requests issued
    patches,          \* PATCH requests issued
    runs,             \* commands started
    last,             \* the last identify_document call: its input and outcome
    ens,              \* an ensure call in progress (stepwise)
    hidden,           \* ids of created entities the server does not list
    res,              \* the last alias resolution
    lk,               \* the last lookup by name
    setup,            \* the last ensure_setup run: what it found and how it ended
    acf,              \* the last ensure_account_custom_fields call
    listing,          \* a paginated listing in progress: requests sent, pending reference
    crash,            \* the interruption of a pipeline run, and the run it cut short
    sorting           \* the sort_scanned runs: what the last one visited, and the one before updated

vars ==
    << execute, config, users, groups, tags, correspondents, document_types,
       storage_paths, custom_fields, documents, pdf, producer, cache, proc,
       posts, patches, runs, last, ens, hidden, res, lk, setup, acf, listing, crash,
       sorting >>

\* ---------------------------------------------------------- alias resolver
\* dict.get(key, default)
dict_get(d, key, default) == IF key \in DOMAIN d THEN d[key] ELSE default

EmptyDict == [k \in {} |-> <<>>]

lookup_account_holder(cfg, account_holder) ==
    dict_get(dict_get(cfg.aliases, "account_holder", EmptyDict),
             account_holder, account_holder)

\* a variant of lookup_correspondent that reads the account holder table
lookup_correspondent_holders(cfg, correspondent) ==
    dict_get(dict_get(cfg.aliases, "account_holder", EmptyDict),
             correspondent, correspondent)

lookup_correspondent_alias(cfg, correspondent) ==
    dict_get(dict_get(cfg.aliases, "correspondent", EmptyDict),
             correspondent, correspondent)

\* Config.lookup_document_type has no definition in config.py; the
\* specification gives it as the identity.
lookup_document_type_alias(cfg, document_type) == document_type

\* pdfrename's normalize_account_holder_name: the name in title case
normalize_account_holder_name(name) ==
    [i \in 1..Len(name) |->
        IF i = 1 \/ name[i - 1] = 32 THEN UpperChar(name[i]) ELSE LowerChar(name[i])]

\* ---------------------------------------------------------- catalog client
NoObj == [id |-> None, name |-> <<>>]

\* a variant of matching that compares the names as they are
matching_exact(coll, name) == SelectSeq(coll, LAMBDA obj : name = obj.name)

\* the objects whose name equals `name` case-insensitively, in listing order
matching(coll, name) == SelectSeq(coll, LAMBDA obj : lower(name) = lower(obj.name))

\* a variant of lookup_by_name that settles for the first of several matches
lookup_first(coll, name) ==
    LET found == matching(coll, name) IN
    IF Len(found) = 0 THEN [kind |-> "ObjectNotFound", obj |-> NoObj]
    ELSE [kind |-> "ok", obj |-> found[1]]

\* one(..., too_short=ObjectNotFound): lookup_tag, lookup_correspondent,
\* lookup_document_type, lookup_storage_path, lookup_custom_field
lookup_by_name(coll, name) ==
    LET found == matching(coll, name) IN
    IF Len(found) = 0 THEN [kind |-> "ObjectNotFound", obj |-> NoObj]
    ELSE IF Len(found) > 1 THEN [kind |-> "ValueError", obj |-> NoObj]
    ELSE [kind |-> "ok", obj |-> found[1]]

lookup_tag(coll, name) == lookup_by_name(coll, name)

lookup_correspondent(coll, name) == lookup_by_name(coll, name)

lookup_document_type(coll, name) == lookup_by_name(coll, name)

lookup_storage_path(coll, name) == lookup_by_name(coll, name)

lookup_custom_field(coll, name) == lookup_by_name(coll, name)

\* default_access_group: one(group.name == all_access_group)
default_access_group(grps, cfg) ==
    LET found == SelectSeq(grps, LAMBDA g : g.name = cfg.all_access_group) IN
    IF Len(found) = 0 THEN [kind |-> "ObjectNotFound", obj |-> NoObj]
    ELSE IF Len(found) > 1 THEN [kind |-> "ValueError", obj |-> NoObj]
    ELSE [kind |-> "ok", obj |-> found[1]]

\* default_permissions
default_permissions(group) ==
    [view_users |-> {}, view_groups |-> {group.id},
     change_users |-> {}, change_groups |-> {group.id}]

RECURSIVE MaxId(_)
MaxId(coll) ==
    IF Len(coll) = 0 THEN 0
    ELSE IF Head(coll).id > MaxId(Tail(coll)) THEN Head(coll).id
    ELSE MaxId(Tail(coll))

\* the object a POST of name, slug, owner None and set_permissions creates
new_object(coll, name, slug, perms) ==
    [id |-> MaxId(coll) + 1, name |-> name, slug |-> slug, owner |-> None,
     view_users |-> perms.view_users, view_groups |-> perms.view_groups,
     change_users |-> perms.change_users, change_groups |-> perms.change_groups]

\* new_correspondent / new_document_type / new_tag: the collection after the POST
new_named(coll, name, slug, group) ==
    Append(coll, new_object(coll, name, slug, default_permissions(group)))

\* a variant of ensure that creates without looking up first
ensure_creating(coll, grps, cfg, name, nposts) ==
    LET grp == default_access_group(grps, cfg)
        made == new_named(coll, name, to_slug(name), grp.obj)
    IN  [kind |-> grp.kind, obj |-> made[Len(made)], coll |-> made,
         posts |-> nposts + 1]

RECURSIVE ensure(_, _, _, _, _)
\* ensure_correspondent / ensure_document_type against a server that lists
\* what it created: [kind, obj, coll, posts]
ensure(coll, grps, cfg, name, nposts) ==
    LET found == lookup_by_name(coll, name) IN
    IF found.kind = "ok"
    THEN [kind |-> "ok", obj |-> found.obj, coll |-> coll, posts |-> nposts]
    ELSE IF found.kind = "ValueError"
    THEN [kind |-> "ValueError", obj |-> NoObj, coll |-> coll, posts |-> nposts]
    ELSE LET grp == default_access_group(grps, cfg) IN
         IF grp.kind # "ok"
         THEN [kind |-> grp.kind, obj |-> NoObj, coll |-> coll, posts |-> nposts]
         ELSE ensure(new_named(coll, name, to_slug(name), grp.obj),
                     grps, cfg, name, nposts + 1)

ensure_correspondent(coll, grps, cfg, name, nposts) ==
    ensure(coll, grps, cfg, name, nposts)

ensure_document_type(coll, grps, cfg, name, nposts) ==
    ensure(coll, grps, cfg, name, nposts)

\* a variant of cached_custom_field that asks the server every time
cached_custom_field_uncached(cch, fields, field) ==
    LET found == lookup_custom_field(fields, field) IN
    [kind |-> found.kind, obj |-> found.obj, requests |-> 1,
     cache |-> IF found.kind = "ok"
               THEN [k \in DOMAIN cch \cup {field} |->
                        IF k = field THEN found.obj ELSE cch[k]]
               ELSE cch]

\* cached_custom_field: [kind, obj, cache, requests]; only a successful lookup is
\* cached, and requests counts the listings asked of the server
cached_custom_field(cch, fields, field) ==
    IF field \in DOMAIN cch
    THEN [kind |-> "ok", obj |-> cch[field], cache |-> cch, requests |-> 0]
    ELSE LET found == lookup_custom_field(fields, field) IN
         [kind |-> found.kind, obj |-> found.obj, requests |-> 1,
          cache |-> IF found.kind = "ok" THEN cch @@ (field :> found.obj) ELSE cch]

\* ------------------------------------------------- identification pipeline
\* a variant of one that settles for the first of several candidates
one_first(ext) ==
    IF ext.error # "none" THEN [kind |-> ext.error, result |-> <<>>]
    ELSE IF Len(ext.candidates) >= 1
    THEN [kind |-> "ok", result |-> ext.candidates[1]]
    ELSE [kind |-> "ValueError", result |-> <<>>]

\* one(try_all_renamers(...)): the only candidate, ValueError for none or several,
\* or the error the extraction engine raised
one(ext) ==
    IF ext.error # "none" THEN [kind |-> ext.error, result |-> <<>>]
    ELSE IF Len(ext.candidates) = 1
    THEN [kind |-> "ok", result |-> ext.candidates[1]]
    ELSE [kind |-> "ValueError", result |-> <<>>]

\* identify.py 48-54: the components after alias resolution
normalized(cfg, nc) ==
    [nc EXCEPT
        !.account_holder =
            [i \in 1..Len(nc.account_holder) |->
                lookup_account_holder(
                    cfg, normalize_account_holder_name(nc.account_holder[i]))],
        !.service_name = lookup_correspondent_alias(cfg, nc.service_name),
        !.document_type = lookup_document_type_alias(cfg, nc.document_type)]

\* pdfrename's render_filename(True, True): the canonical file name of the
\* components, InvalidFilenameError when a fragment is empty or holds "/"
render_filename(nc) ==
    LET fragments ==
            <<strftime(nc.date), nc.service_name>> \o nc.account_holder
                \o <<nc.document_type>>
        bad(f) == Len(f) = 0 \/ contains(f, <<47>>)
    IN  IF \E i \in 1..Len(fragments) : bad(fragments[i])
        THEN [kind |-> "InvalidFilenameError", name |-> <<>>]
        ELSE [kind |-> "ok", name |-> join(FRAGMENT_SEP, fragments) \o PDF_SUFFIX]

\* a variant of overwrite_fields that always replaces the two number fields
overwrite_fields_always(holder, number, docnum, nc) == {holder.id, number.id, docnum.id}

\* a variant of overwrite_fields that leaves the account holder entries in place
overwrite_fields_numbers(holder, number, docnum, nc) ==
    (IF nc.account_number # NoneStr THEN {number.id} ELSE {})
        \cup (IF nc.document_number # NoneStr THEN {docnum.id} ELSE {})

\* identify.py 75-79
overwrite_fields(holder, number, docnum, nc) ==
    {holder.id}
        \cup (IF nc.account_number # NoneStr THEN {number.id} ELSE {})
        \cup (IF nc.document_number # NoneStr THEN {docnum.id} ELSE {})

\* identify.py 81-98: the custom field values after reconciliation
reconciled(values, holder, number, docnum, nc) ==
    SelectSeq(values,
              LAMBDA v : v.field \notin overwrite_fields(holder, number, docnum, nc))
        \o << [field |-> holder.id, value |-> join(HOLDER_SEP, nc.account_holder)] >>
        \o (IF nc.account_number # NoneStr
            THEN << [field |-> number.id, value |-> nc.account_number] >>
            ELSE <<>>)
        \o (IF nc.document_number # NoneStr
            THEN << [field |-> docnum.id, value |-> nc.document_number] >>
            ELSE <<>>)

\* what identify_document hands back: ret is "doc" (the document is returned),
\* "None", or "raise" with the exception in exc; doc is the in-memory document
\* and env the server and session state after the call
Outcome(ret, exc, doc, env) == [ret |-> ret, exc |-> exc, doc |-> doc, env |-> env]

\* identify.py 99-103
identify_tag(cfg, doc, env) ==
    IF dict_get(cfg.predefined_tags, "identified", <<>>) = <<>>
    THEN Outcome("doc", "", doc, env)
    ELSE LET tag == lookup_tag(env.tags, cfg.predefined_tags["identified"]) IN
         IF tag.kind # "ok" THEN Outcome("raise", tag.kind, doc, env)
         ELSE Outcome("doc", "", [doc EXCEPT !.tags = Append(@, tag.obj.id)], env)

\* identify.py 73-103
identify_fields(cfg, doc, nc, holder, number, docnum, env) ==
    identify_tag(
        cfg,
        [doc EXCEPT !.custom_field_values = reconciled(@, holder, number, docnum, nc)],
        env)

\* identify.py 66-71, then on to the custom fields
identify_entities(exec, cfg, doc, nc, holder, number, docnum, env) ==
    IF ~exec THEN identify_fields(cfg, doc, nc, holder, number, docnum, env)
    ELSE
    LET c == ensure_correspondent(
                 env.correspondents, env.groups, cfg, nc.service_name, env.posts)
        env1 == [env EXCEPT !.correspondents = c.coll, !.posts = c.posts]
    IN  IF c.kind # "ok" THEN Outcome("raise", c.kind, doc, env1)
        ELSE
        LET doc1 == [doc EXCEPT !.correspondent = c.obj.id]
            t == ensure_document_type(
                     env1.document_types, env1.groups, cfg, nc.document_type,
                     env1.posts)
            env2 == [env1 EXCEPT !.document_types = t.coll, !.posts = t.posts]
        IN  IF t.kind # "ok" THEN Outcome("raise", t.kind, doc1, env2)
            ELSE identify_fields(
                     cfg, [doc1 EXCEPT !.document_type = t.obj.id], nc,
                     holder, number, docnum, env2)

\* identify.py 34-64
identify_extracted(exec, cfg, doc, ext, holder, number, docnum, env) ==
    LET found == one(ext) IN
    IF found.kind # "ok" THEN Outcome("None", found.kind, doc, env)
    ELSE
    LET nc == normalized(cfg, found.result)
        title == render_filename(nc)
    IN  IF title.kind # "ok" THEN Outcome("None", title.kind, doc, env)
        ELSE identify_entities(
                 exec, cfg,
                 [doc EXCEPT !.title = removesuffix(title.name, PDF_SUFFIX),
                             !.created_date = strftime(nc.date)],
                 nc, holder, number, docnum, env)

\* identify_document(execute, session, doc): identify.py 19-103
identify_document(exec, cfg, doc, ext, env) ==
    LET h == cached_custom_field(env.cache, env.custom_fields, ACCOUNT_HOLDER)
        n == cached_custom_field(h.cache, env.custom_fields, ACCOUNT_NUMBER)
        d == cached_custom_field(n.cache, env.custom_fields, DOCUMENT_NUMBER)
    IN  IF h.kind # "ok"
        THEN Outcome("raise", h.kind, doc,
                     [env EXCEPT !.cache = h.cache, !.lookups = h.requests])
        ELSE IF n.kind # "ok"
        THEN Outcome("raise", n.kind, doc,
                     [env EXCEPT !.cache = n.cache,
                                 !.lookups = h.requests + n.requests])
        ELSE IF d.kind # "ok"
        THEN Outcome("raise", d.kind, doc,
                     [env EXCEPT !.cache = d.cache,
                                 !.lookups = h.requests + n.requests + d.requests])
        ELSE identify_extracted(
                 exec, cfg, doc, ext, h.obj, n.obj, d.obj,
                 [env EXCEPT !.cache = d.cache,
                             !.lookups = h.requests + n.requests + d.requests])

\* ------------------------------------------------------------ batch drivers
MIME_PDF == "application/pdf"

EmptyCache == [k \in {} |-> NoObj]

\* no command is running; exc is how the last one ended ("" for normally)
Idle ==
    [cmd |-> "idle", exc |-> "", queue |-> <<>>, excluded |-> {},
     exclude_identified |-> FALSE, only_inbox |-> FALSE, inbox |-> None,
     scanned_tag |-> None, scanned_path |-> None, unsorted_path |-> None]

Exited(exc) == [Idle EXCEPT !.exc = exc]

\* the server and session state identify_document works on
Env ==
    [custom_fields |-> custom_fields, correspondents |-> correspondents,
     document_types |-> document_types, tags |-> tags, groups |-> groups,
     cache |-> cache, posts |-> posts, patches |-> patches, lookups |-> 0]

\* session.documents(): the ids of the PDF documents, ascending (ordering=id)
list_documents(docs) ==
    SelectSeq([i \in 1..Cardinality(DOMAIN docs) |-> i],
              LAMBDA i : docs[i].mime_type = MIME_PDF)

\* set(seq)
set_of(seq) == {seq[i] : i \in 1..Len(seq)}

\* a variant of updates that sends the document back in a dry run too
updates_regardless(exec, out) == out.ret = "doc"

\* whether the driver sends the document back: main.py 179-181 and 253-254
updates(exec, out) == exec /\ out.ret = "doc"

\* a variant of advance that ends the command when the pipeline returned None
advance_aborting(p, rest, out) ==
    IF out.ret # "doc" THEN Exited(out.exc)
    ELSE IF Len(rest) = 0 THEN Idle
    ELSE [p EXCEPT !.queue = rest]

\* the loops of main.py 163-181 and 238-254 after a call of the pipeline: an
\* exception leaves the command, anything else goes on to the next document
advance(p, rest, out) ==
    IF out.ret = "raise" THEN Exited(out.exc)
    ELSE IF Len(rest) = 0 THEN Idle
    ELSE [p EXCEPT !.queue = rest]

\* main.py 177-181 and 251-254: what the driver does with the pipeline's outcome,
\* update_document when it returned a document and execute is set
Driven(id, rest, out) ==
    /\ correspondents' = out.env.correspondents
    /\ document_types' = out.env.document_types
    /\ cache' = out.env.cache
    /\ posts' = out.env.posts
    /\ patches' = IF updates(execute, out) THEN out.env.patches + 1
                  ELSE out.env.patches
    /\ documents' = IF updates(execute, out) THEN [documents EXCEPT ![id] = out.doc]
                    ELSE documents
    /\ proc' = advance(proc, rest, out)
    /\ last' = [called |-> TRUE, cmd |-> proc.cmd, execute |-> execute,
                exclude_identified |-> proc.exclude_identified,
                id |-> id, before |-> documents[id], ext |-> pdf[id],
                ret |-> out.ret, exc |-> out.exc, doc |-> out.doc,
                posts |-> out.env.posts - posts,
                pipeline_patches |-> out.env.patches - patches,
                driver_patches |-> IF updates(execute, out) THEN 1 ELSE 0,
                run |-> runs, lookups |-> out.env.lookups, cache |-> cache,
                failures |-> (IF last.run = runs THEN last.failures ELSE 0)
                                + (IF out.ret = "None" THEN 1 ELSE 0)]

\* main.py 175-181 and 249-254: the pipeline on one document, then the driver
Drive(id, rest) ==
    Driven(id, rest, identify_document(execute, config, documents[id], pdf[id], Env))

\* the next document of the listing is passed over
Skip(rest) ==
    /\ proc' = IF Len(rest) = 0 THEN Idle ELSE [proc EXCEPT !.queue = rest]
    /\ UNCHANGED << correspondents, document_types, cache, posts, patches,
                    documents, last >>

\* identify <documents>: main.py 155-181 (every reference is a document id)
StartIdentify ==
    /\ proc.cmd = "idle"
    /\ runs < MaxRuns
    /\ \E n \in 1..MaxRefs : \E refs \in [1..n -> DOMAIN documents] :
           proc' = [Idle EXCEPT !.cmd = "identify", !.queue = refs]
    /\ runs' = runs + 1
    /\ cache' = EmptyCache
    /\ UNCHANGED << execute, config, users, groups, tags, correspondents,
                    document_types, storage_paths, custom_fields, documents, pdf,
                    producer, posts, patches, last, ens, hidden, res, lk, setup, acf,
                    listing, crash, sorting >>

IdentifyStep ==
    /\ proc.cmd = "identify"
    /\ Drive(Head(proc.queue), Tail(proc.queue))
    /\ UNCHANGED << execute, config, users, groups, tags, storage_paths,
                    custom_fields, pdf, producer, runs, ens, hidden, res, lk, setup,
                    acf, listing, crash, sorting >>

\* identify_all before its loop: main.py 207-233
identify_all_setup(cfg, tgs, exclude_identified, exclude_scanned, only_inbox) ==
    LET conf == cfg.predefined_tags
        fail(exc) == Exited(exc)
    IN
    IF only_inbox /\ "inbox" \notin DOMAIN conf THEN fail("UsageError")
    ELSE IF exclude_identified /\ "identified" \notin DOMAIN conf THEN fail("KeyError")
    ELSE
    LET identified_tag_id == None
        scanned == IF exclude_scanned /\ "scanned" \in DOMAIN conf
                   THEN lookup_tag(tgs, conf["scanned"])
                   ELSE [kind |-> "ok", obj |-> NoObj]
        inbox == IF only_inbox THEN lookup_tag(tgs, conf["inbox"])
                 ELSE [kind |-> "ok", obj |-> NoObj]
    IN  IF scanned.kind # "ok" THEN fail(scanned.kind)
        ELSE IF inbox.kind # "ok" THEN fail(inbox.kind)
        ELSE [Idle EXCEPT !.cmd = "identify_all",
                          !.excluded = {identified_tag_id, scanned.obj.id},
                          !.exclude_identified = exclude_identified,
                          !.only_inbox = only_inbox,
                          !.inbox = inbox.obj.id]

\* the command ends at once when the listing is empty
Begin(p, docs) ==
    IF p.cmd = "idle" THEN p
    ELSE IF Len(list_documents(docs)) = 0 THEN Idle
    ELSE [p EXCEPT !.queue = list_documents(docs)]

StartIdentifyAll ==
    /\ proc.cmd = "idle"
    /\ runs < MaxRuns
    /\ \E exclude_identified, exclude_scanned, only_inbox \in BOOLEAN :
           proc' = Begin(identify_all_setup(config, tags, exclude_identified,
                                            exclude_scanned, only_inbox),
                         documents)
    /\ runs' = runs + 1
    /\ cache' = EmptyCache
    /\ UNCHANGED << execute, config, users, groups, tags, correspondents,
                    document_types, storage_paths, custom_fields, documents, pdf,
                    producer, posts, patches, last, ens, hidden, res, lk, setup, acf,
                    listing, crash, sorting >>

\* main.py 238-247: whether identify_all hands the document to the pipeline
identify_all_selects(p, doc) ==
    /\ doc.mime_type = MIME_PDF
    /\ set_of(doc.tags) \cap p.excluded = {}
    /\ ~(p.only_inbox /\ p.inbox \notin set_of(doc.tags))

IdentifyAllStep ==
    /\ proc.cmd = "identify_all"
    /\ IF identify_all_selects(proc, documents[Head(proc.queue)])
       THEN Drive(Head(proc.queue), Tail(proc.queue))
       ELSE Skip(Tail(proc.queue))
    /\ UNCHANGED << execute, config, users, groups, tags, storage_paths,
                    custom_fields, pdf, producer, runs, ens, hidden, res, lk, setup,
                    acf, listing, crash, sorting >>

\* ------------------------------------------------------------------ inputs
N_Ab == <<65, 98>>
N_ab == <<97, 98>>
N_Cd == <<67, 100>>
N_In == <<73, 110>>
N_js == <<106, 115>>
N_Js == <<74, 115>>
N_AL == <<65, 76>>
N_John == <<74, 111, 104, 110>>
N_all == <<97, 108, 108>>
N_me == <<109, 101>>
N_identified == <<105, 100>>
N_Inbox == <<73, 110, 98, 111, 120>>
N_inbox == <<105, 110, 98, 111, 120>>
N_scanned == <<115, 99>>
N_Notes == <<78, 111, 116, 101, 115>>
V_123 == <<49, 50, 51>>
V_77 == <<55, 55>>
V_OLD == <<79, 76, 68, 45, 57, 57>>
V_scan == <<115, 99, 97, 110>>
D_old == <<50, 48, 50, 48, 45, 48, 49, 45, 48, 49>>

\* a tag, correspondent, document type or storage path as the server lists it
Obj(id, name, owner, change_groups) ==
    [id |-> id, name |-> name, slug |-> to_slug(name), owner |-> owner,
     view_users |-> {}, view_groups |-> {},
     change_users |-> {}, change_groups |-> change_groups]

Field(id, name) == [id |-> id, name |-> name]

Value(field, value) == [field |-> field, value |-> value]

Doc(id, tgs, values, path, mime) ==
    [id |-> id, title |-> V_scan, created_date |-> D_old, correspondent |-> None,
     document_type |-> None, storage_path |-> path, tags |-> tgs,
     custom_field_values |-> values, mime_type |-> mime]

Components(holders, service, type, number, docnum) ==
    [account_holder |-> holders, service_name |-> service, document_type |-> type,
     date |-> <<2024, 3, 1>>, account_number |-> number, document_number |-> docnum]

Extraction(error, candidates) == [error |-> error, candidates |-> candidates]

\* Config.aliases: no table, one table, both tables
AliasTables ==
    { EmptyDict,
      ("account_holder" :> (N_Js :> N_John)) @@ ("correspondent" :> (N_Cd :> N_Ab)) }

AllTags ==
    ("identified" :> N_identified) @@ ("inbox" :> N_inbox) @@ ("scanned" :> N_scanned)

\* a URL as urlparse splits it; path is the path split at "/"
Url(scheme, netloc, path, query) ==
    [scheme |-> scheme, netloc |-> netloc, path |-> path, query |-> query]

\* url = "https://server/"
SERVER_URL == Url("https", "server", <<"", "">>, "")

ConfigOf(aliases, predefined_tags) ==
    [url |-> SERVER_URL, object_owner |-> N_me, all_access_group |-> N_all, scan_software |-> <<V_scan>>,
     predefined_tags |-> predefined_tags,
     predefined_storage_paths |->
         ("unsorted" :> <<117, 110>>) @@ ("scanned" :> N_scanned),
     aliases |-> aliases]

StandardFields ==
    << Field(1, ACCOUNT_HOLDER), Field(2, ACCOUNT_NUMBER), Field(3, DOCUMENT_NUMBER),
       Field(4, N_Notes) >>

StandardTags ==
    << Obj(1, N_Inbox, 1, {1}), Obj(2, N_identified, 1, {1}), Obj(3, N_scanned, 1, {1}) >>

StandardPaths ==
    << Obj(1, <<117, 110>>, 1, {1}), Obj(2, N_scanned, 1, {1}), Obj(3, N_Cd, 1, {1}) >>

\* the custom field values a document may hold when the pipeline meets it
ValueLists ==
    { <<>>,
      << Value(3, V_OLD) >>,
      << Value(2, V_77), Value(4, V_OLD), Value(3, V_OLD), Value(2, V_123),
         Value(3, V_77) >>,
      << Value(1, N_Ab), Value(4, V_77), Value(1, N_Cd), Value(3, V_123) >>,
      << Value(4, V_OLD), Value(2, V_OLD), Value(3, V_77), Value(3, V_OLD) >> }

ComponentsSet ==
    { Components(<<N_AL, N_js>>, N_ab, N_In, n, d) :
        n \in {NoneStr, V_123}, d \in {NoneStr, V_77} }
        \cup { Components(<<N_js>>, N_Cd, N_In, n, NoneStr) : n \in {NoneStr, V_123} }
        \cup { Components(<<N_js>>, <<>>, N_In, V_123, V_77) }

\* what the extraction engine may yield for a file
Extractions ==
    { Extraction("PSEOF", <<>>), Extraction("IndexError", <<>>),
      Extraction("none", <<>>),
      Extraction("none", << Components(<<N_js>>, N_ab, N_In, V_123, NoneStr),
                            Components(<<N_AL>>, N_Cd, N_In, NoneStr, NoneStr) >>) }
        \cup { Extraction("none", <<c>>) : c \in ComponentsSet }

NoCall ==
    [called |-> FALSE, cmd |-> "idle", execute |-> FALSE,
     exclude_identified |-> FALSE, id |-> None,
     before |-> Doc(None, <<>>, <<>>, None, MIME_PDF),
     ext |-> Extraction("none", <<>>), ret |-> "None", exc |-> "",
     doc |-> Doc(None, <<>>, <<>>, None, MIME_PDF),
     posts |-> 0, pipeline_patches |-> 0, driver_patches |-> 0,
     run |-> 0, lookups |-> 0, cache |-> EmptyCache, failures |-> 0]

NoEnsure ==
    [pc |-> "idle", what |-> "", name |-> <<>>, depth |-> 0, creates |-> 0,
     exc |-> "", obj |-> NoObj, before |-> <<>>]

NoRes == [table |-> "", raw |-> <<>>, value |-> <<>>]

NoLookup == [coll |-> <<>>, name |-> <<>>, kind |-> "", obj |-> NoObj]

NoListing ==
    [pc |-> "idle", sent |-> <<>>, next |-> Url("", "", <<"">>, ""), given |-> FALSE,
     rejected |-> Url("", "", <<"">>, ""), followed |-> Url("", "", <<"">>, "")]

NoCrash ==
    [at |-> "", id |-> None, run |-> 0,
     before |-> Doc(None, <<>>, <<>>, None, MIME_PDF),
     correspondents |-> <<>>, document_types |-> <<>>, created |-> 0,
     whole |-> [doc |-> Doc(None, <<>>, <<>>, None, MIME_PDF),
                correspondents |-> <<>>, document_types |-> <<>>]]

NoSorting ==
    [run |-> 0, only_inbox |-> FALSE, same |-> FALSE, first |-> {}, seen |-> {},
     fetched |-> {}, updated |-> {}]

NoFields ==
    [called |-> FALSE, seen |-> <<>>, hide |-> {}, kind |-> "", result |-> <<>>,
     created |-> <<>>, posts |-> 0, run |-> 0]

NoSetup ==
    [called |-> FALSE, execute |-> FALSE, exc |-> "", owner |-> None,
     group |-> None, tags |-> <<>>, correspondents |-> <<>>,
     document_types |-> <<>>, custom_fields |-> <<>>, posts |-> 0, patches |-> 0]

\* ---------------------------------------- the pipeline on a single document
InitPipeline ==
    /\ execute \in BOOLEAN
    /\ config \in { ConfigOf(a, t) :
                      a \in AliasTables, t \in {AllTags, ("inbox" :> N_inbox)} }
    /\ users = << [id |-> 1, username |-> N_me] >>
    /\ groups = << [id |-> 1, name |-> N_all] >>
    /\ tags = StandardTags
    /\ correspondents \in
           { <<>>, << Obj(1, N_Ab, 1, {1}) >>,
             << Obj(1, N_Ab, 1, {1}), Obj(2, N_ab, None, {}) >> }
    /\ document_types = <<>>
    /\ storage_paths = StandardPaths
    /\ custom_fields = StandardFields
    /\ documents \in { (1 :> Doc(1, <<1>>, v, None, MIME_PDF)) : v \in ValueLists }
    /\ pdf \in [{1} -> Extractions]
    /\ producer = (1 :> <<>>)
    /\ cache = EmptyCache
    /\ proc = Idle
    /\ posts = 0
    /\ patches = 0
    /\ runs = 0
    /\ last = NoCall
    /\ ens = NoEnsure
    /\ hidden = {}
    /\ res = NoRes
    /\ lk = NoLookup
    /\ sorting = NoSorting
    /\ crash = NoCrash
    /\ listing = NoListing
    /\ acf = NoFields
    /\ setup = NoSetup

NextPipeline == StartIdentify \/ IdentifyStep

SpecPipeline == InitPipeline /\ [][NextPipeline]_vars

\* ------------------------------------------------------ claims: pipeline
\* the entries of one custom field, in order
entries_of(values, field) == SelectSeq(values, LAMBDA v : v.field = field)

\* the id of the custom field of that exact name
field_id(name) == (CHOOSE f \in set_of(custom_fields) : f.name = name).id

\* the extraction engine gave identify_document exactly one candidate
UniqueResult == last.ext.error = "none" /\ Len(last.ext.candidates) = 1

\* the last call is a successful run: identify_document returned the document
Successful == last.called /\ last.ret = "doc"

\* the value extraction produced for the account number / document number field
extracted_value(name) ==
    IF name = ACCOUNT_NUMBER THEN last.ext.candidates[1].account_number
    ELSE last.ext.candidates[1].document_number

\* C1: when the extraction engine yields no candidate, several candidates, or
\* fails with PSEOF / IndexError, identify_document returns None, the document is
\* exactly as it was (in memory and on the server) and no POST or PATCH is issued.
C1_NoUniqueResultNoChange ==
    (last.called /\ ~UniqueResult) =>
        /\ last.ret = "None"
        /\ last.doc = last.before
        /\ documents[last.id] = last.before
        /\ last.posts = 0
        /\ last.pipeline_patches = 0
        /\ last.driver_patches = 0

C1_Witness ==
    /\ last.called
    /\ execute
    /\ Len(last.ext.candidates) = 2
    /\ last.ret = "None"
    /\ Len(last.before.custom_field_values) > 0

\* C2: after a successful run, a number field for which extraction produced no
\* value keeps exactly its previous entries, in order; one for which it produced
\* a value holds exactly one entry, the extracted value; the entries of every
\* field that is not overwritten are untouched.
C2_NumbersOnlyWhenDetected ==
    Successful =>
        /\ \A name \in {ACCOUNT_NUMBER, DOCUMENT_NUMBER} :
               entries_of(last.doc.custom_field_values, field_id(name)) =
                   IF extracted_value(name) = NoneStr
                   THEN entries_of(last.before.custom_field_values, field_id(name))
                   ELSE << Value(field_id(name), extracted_value(name)) >>
        /\ LET kept(v) ==
                   /\ v.field # field_id(ACCOUNT_HOLDER)
                   /\ \A name \in {ACCOUNT_NUMBER, DOCUMENT_NUMBER} :
                          v.field = field_id(name) => extracted_value(name) = NoneStr
           IN  SelectSeq(last.doc.custom_field_values, kept) =
                   SelectSeq(last.before.custom_field_values, kept)

C2_Witness ==
    /\ Successful
    /\ extracted_value(ACCOUNT_NUMBER) = NoneStr
    /\ extracted_value(DOCUMENT_NUMBER) # NoneStr
    /\ Len(entries_of(last.before.custom_field_values, field_id(ACCOUNT_NUMBER))) = 2
    /\ Len(entries_of(last.before.custom_field_values, field_id(DOCUMENT_NUMBER))) = 2

\* the value identify_document gives the account holder field
holder_value(nc) ==
    join(HOLDER_SEP,
         [i \in 1..Len(nc.account_holder) |->
             lookup_account_holder(
                 config, normalize_account_holder_name(nc.account_holder[i]))])

ExactlyOneHolder ==
    entries_of(last.doc.custom_field_values, field_id(ACCOUNT_HOLDER)) =
        << Value(field_id(ACCOUNT_HOLDER), holder_value(last.ext.candidates[1])) >>

\* C3 as stated: after every successful run the document holds at most one entry
\* per managed field and exactly one account holder entry, the joined names.
C3_AtMostOnePerManagedField ==
    Successful =>
        /\ ExactlyOneHolder
        /\ \A name \in {ACCOUNT_NUMBER, DOCUMENT_NUMBER} :
               Len(entries_of(last.doc.custom_field_values, field_id(name))) <= 1

\* C3 amended: after every successful run the document holds exactly one account
\* holder entry, the joined alias-resolved names; it holds exactly one entry for
\* a number field extraction produced a value for, and for a number field it
\* produced none for as many entries as the document held before.
C3_OneHolderNumbersAsDetected ==
    Successful =>
        /\ ExactlyOneHolder
        /\ \A name \in {ACCOUNT_NUMBER, DOCUMENT_NUMBER} :
               Len(entries_of(last.doc.custom_field_values, field_id(name))) =
                   IF extracted_value(name) # NoneStr THEN 1
                   ELSE Len(entries_of(last.before.custom_field_values,
                                       field_id(name)))

C3_Witness ==
    /\ Successful
    /\ Len(entries_of(last.before.custom_field_values, field_id(ACCOUNT_HOLDER))) = 2
    /\ Len(last.ext.candidates[1].account_holder) = 2
    /\ "account_holder" \in DOMAIN config.aliases
    /\ extracted_value(ACCOUNT_NUMBER) # NoneStr

\* C5: in execute mode a run on the server state the previous run and update
\* produced leaves title, created date, correspondent and document type as the
\* previous run set them.
C5_SecondRunChangesNothing ==
    (Successful /\ execute /\ patches >= 2) =>
        /\ last.doc.title = last.before.title
        /\ last.doc.created_date = last.before.created_date
        /\ last.doc.correspondent = last.before.correspondent
        /\ last.doc.document_type = last.before.document_type

C5_Witness ==
    /\ Successful
    /\ execute
    /\ patches = 2
    /\ posts = 2
    /\ last.posts = 0
    /\ last.doc.correspondent # None
    /\ last.doc.title # V_scan

\* ------------------------------------------- ensure and lookup, step by step
\* what a listing of the collection shows: the server may not list an object it
\* accepted
listed(what, coll) == SelectSeq(coll, LAMBDA obj : <<what, obj.id>> \notin hidden)

collection(what) ==
    CASE what = "tags" -> tags
      [] what = "correspondents" -> listed(what, correspondents)
      [] what = "document_types" -> listed(what, document_types)
      [] what = "storage_paths" -> storage_paths
      [] what = "custom_fields" -> custom_fields

lookup(what, name) ==
    CASE what = "tags" -> lookup_tag(collection(what), name)
      [] what = "correspondents" -> lookup_correspondent(collection(what), name)
      [] what = "document_types" -> lookup_document_type(collection(what), name)
      [] what = "storage_paths" -> lookup_storage_path(collection(what), name)
      [] what = "custom_fields" -> lookup_custom_field(collection(what), name)

Looked(what, name) ==
    [coll |-> collection(what), name |-> name, kind |-> lookup(what, name).kind,
     obj |-> lookup(what, name).obj]

\* a caller looks an object up by name, outside any ensure call: session.py
\* 212-217, 247-252, 277-282, 289-294, 317-322
Lookup ==
    /\ ens.pc = "idle"
    /\ \E what \in {"tags", "correspondents", "document_types", "storage_paths",
                    "custom_fields"} :
       \E name \in {N_Ab, N_ab, N_Cd, N_inbox, N_Inbox, N_scanned, ACCOUNT_HOLDER,
                    lower(ACCOUNT_HOLDER)} :
           lk' = Looked(what, name)
    /\ UNCHANGED << execute, config, users, groups, tags, correspondents,
                    document_types, storage_paths, custom_fields, documents, pdf,
                    producer, cache, proc, posts, patches, runs, last, ens, hidden,
                    res, setup, acf, listing, crash, sorting >>

\* ensure_correspondent(s, name) / ensure_document_type(s, name) is called
EnsureCall ==
    /\ ens.pc \in {"idle", "done", "raised"}
    /\ runs < MaxRuns
    /\ \E what \in {"correspondents", "document_types"} :
       \E name \in {N_Ab, N_ab, N_Cd} :
           ens' = [NoEnsure EXCEPT !.pc = "lookup", !.what = what, !.name = name,
                                   !.depth = 1, !.before = collection(what)]
    /\ runs' = runs + 1
    /\ UNCHANGED << execute, config, users, groups, tags, correspondents,
                    document_types, storage_paths, custom_fields, documents, pdf,
                    producer, cache, proc, posts, patches, last, hidden, res, lk,
                    setup, acf, listing, crash, sorting >>

\* utils.py 97-98 and 108-109: the try block
EnsureLookup ==
    /\ ens.pc = "lookup"
    /\ lk' = Looked(ens.what, ens.name)
    /\ ens' = [ens EXCEPT
                  !.pc = IF lk'.kind = "ok" THEN "done"
                         ELSE IF lk'.kind = "ObjectNotFound" THEN "create"
                         ELSE "raised",
                  !.exc = IF lk'.kind = "ValueError" THEN lk'.kind ELSE "",
                  !.obj = lk'.obj]
    /\ UNCHANGED << execute, config, users, groups, tags, correspondents,
                    document_types, storage_paths, custom_fields, documents, pdf,
                    producer, cache, proc, posts, patches, runs, last, hidden, res,
                    setup, acf, listing, crash, sorting >>

\* utils.py 99-101 and 110-112: the handler creates the object and calls ensure
\* again; the server lists the new object or does not
EnsureCreate ==
    /\ ens.pc = "create"
    /\ ens.depth < MaxDepth
    /\ LET grp == default_access_group(groups, config)
           coll == IF ens.what = "correspondents" THEN correspondents
                   ELSE document_types
           made == new_named(coll, ens.name, to_slug(ens.name), grp.obj)
       IN  IF grp.kind # "ok"
           THEN /\ ens' = [ens EXCEPT !.pc = "raised", !.exc = grp.kind]
                /\ UNCHANGED << correspondents, document_types, posts, hidden >>
           ELSE /\ ens' = [ens EXCEPT !.pc = "lookup", !.depth = @ + 1,
                                      !.creates = @ + 1]
                /\ correspondents' =
                       IF ens.what = "correspondents" THEN made ELSE correspondents
                /\ document_types' =
                       IF ens.what = "document_types" THEN made ELSE document_types
                /\ posts' = posts + 1
                /\ \E shown \in BOOLEAN :
                       hidden' = IF shown THEN hidden
                                 ELSE hidden \cup {<<ens.what, made[Len(made)].id>>}
    /\ UNCHANGED << execute, config, users, groups, tags, storage_paths,
                    custom_fields, documents, pdf, producer, cache, proc, patches,
                    runs, last, res, lk, setup, acf, listing, crash, sorting >>

InitEnsure ==
    /\ execute = TRUE
    /\ config = ConfigOf(EmptyDict, AllTags)
    /\ users = << [id |-> 1, username |-> N_me] >>
    /\ groups = << [id |-> 1, name |-> N_all] >>
    /\ tags \in { StandardTags, Append(StandardTags, Obj(4, N_inbox, None, {})) }
    /\ correspondents \in
           { <<>>, << Obj(1, N_Ab, 1, {1}) >>,
             << Obj(1, N_Ab, 1, {1}), Obj(2, N_ab, None, {}) >> }
    /\ document_types \in { <<>>, << Obj(1, N_Cd, 1, {1}) >> }
    /\ storage_paths = StandardPaths
    /\ custom_fields \in
           { StandardFields, Append(StandardFields, Field(5, lower(ACCOUNT_HOLDER))) }
    /\ documents = (1 :> Doc(1, <<1>>, <<>>, None, MIME_PDF))
    /\ pdf = (1 :> Extraction("none", <<>>))
    /\ producer = (1 :> <<>>)
    /\ cache = EmptyCache
    /\ proc = Idle
    /\ posts = 0
    /\ patches = 0
    /\ runs = 0
    /\ last = NoCall
    /\ ens = NoEnsure
    /\ hidden = {}
    /\ res = NoRes
    /\ lk = NoLookup
    /\ sorting = NoSorting
    /\ crash = NoCrash
    /\ listing = NoListing
    /\ acf = NoFields
    /\ setup = NoSetup

NextEnsure == Lookup \/ EnsureCall \/ EnsureLookup \/ EnsureCreate

SpecEnsure == InitEnsure /\ [][NextEnsure]_vars

\* ------------------------------------------------------- the alias resolver
\* the pipeline resolves a raw name: identify.py 48-54
Resolve ==
    /\ \E table \in {"account_holder", "correspondent", "document_type"} :
       \E raw \in {N_Js, N_js, N_AL, N_Cd, N_Ab, N_John, <<>>} :
           res' = [table |-> table, raw |-> raw,
                   value |->
                       CASE table = "account_holder" ->
                                lookup_account_holder(config, raw)
                         [] table = "correspondent" ->
                                lookup_correspondent_alias(config, raw)
                         [] table = "document_type" ->
                                lookup_document_type_alias(config, raw)]
    /\ UNCHANGED << execute, config, users, groups, tags, correspondents,
                    document_types, storage_paths, custom_fields, documents, pdf,
                    producer, cache, proc, posts, patches, runs, last, ens, hidden,
                    lk, setup, acf, listing, crash, sorting >>

\* Config.aliases as a configuration file may give it
AliasConfigs ==
    { h @@ c :
        h \in { EmptyDict,
                ("account_holder" :> EmptyDict),
                ("account_holder" :> (N_Js :> N_John)),
                ("account_holder" :> ((N_Js :> N_John) @@ (N_AL :> N_Js))) },
        c \in { EmptyDict,
                ("correspondent" :> (N_Cd :> N_Ab)),
                ("correspondent" :> ((N_Cd :> N_Ab) @@ (N_John :> N_Cd))) } }

InitAlias ==
    /\ execute = FALSE
    /\ config \in { ConfigOf(a, AllTags) : a \in AliasConfigs }
    /\ users = << [id |-> 1, username |-> N_me] >>
    /\ groups = << [id |-> 1, name |-> N_all] >>
    /\ tags = StandardTags
    /\ correspondents = <<>>
    /\ document_types = <<>>
    /\ storage_paths = StandardPaths
    /\ custom_fields = StandardFields
    /\ documents = (1 :> Doc(1, <<1>>, <<>>, None, MIME_PDF))
    /\ pdf = (1 :> Extraction("none", <<>>))
    /\ producer = (1 :> <<>>)
    /\ cache = EmptyCache
    /\ proc = Idle
    /\ posts = 0
    /\ patches = 0
    /\ runs = 0
    /\ last = NoCall
    /\ ens = NoEnsure
    /\ hidden = {}
    /\ res = NoRes
    /\ lk = NoLookup
    /\ sorting = NoSorting
    /\ crash = NoCrash
    /\ listing = NoListing
    /\ acf = NoFields
    /\ setup = NoSetup

NextAlias == Resolve

SpecAlias == InitAlias /\ [][NextAlias]_vars

\* -------------------------------------------- claims: ensure, lookup, aliases
\* how many objects of the listing have that name, letter case aside
count(coll, name) ==
    Cardinality({i \in 1..Len(coll) : lower(coll[i].name) = lower(name)})

\* C6: ensure called with a name no listed object matches case-insensitively
\* issues exactly one create request and returns the created object (the server
\* listing what it creates); called with a name an object matches, in any letter
\* case, it issues no create request and returns that object.
C6_EnsureCreatesExactlyWhenAbsent ==
    /\ (ens.pc # "idle" /\ count(ens.before, ens.name) >= 1) => ens.creates = 0
    /\ (ens.pc = "done" /\ count(ens.before, ens.name) >= 1) =>
           /\ ens.obj \in set_of(ens.before)
           /\ lower(ens.obj.name) = lower(ens.name)
    /\ (ens.pc = "done" /\ count(ens.before, ens.name) = 0 /\ hidden = {}) =>
           /\ ens.creates = 1
           /\ ens.obj \notin set_of(ens.before)
           /\ ens.obj.name = ens.name
           /\ ens.obj.id \notin {ens.before[i].id : i \in 1..Len(ens.before)}

C6_Witness ==
    /\ ens.pc = "done"
    /\ ens.creates = 1
    /\ hidden = {}
    /\ Len(ens.before) > 0
    /\ ens.obj.name = ens.name
    /\ posts = 1

\* C7: ensure creates and looks up again at most once: after a create, a lookup
\* that still reports NotFound ends ensure in an error, and it never creates a
\* second time.
C7_OneRetryThenFatal ==
    ens.creates >= 1 => (ens.pc \in {"lookup", "done", "raised"} /\ ens.creates = 1)

\* C8: a lookup by name compares case-insensitively: exactly one match returns
\* that object, none fails with ObjectNotFound, two or more fail with ValueError,
\* which ensure neither catches nor answers with a create or with one of them.
C8_LookupThreeOutcomes ==
    /\ lk.kind # "" =>
           /\ count(lk.coll, lk.name) = 0 => lk.kind = "ObjectNotFound"
           /\ count(lk.coll, lk.name) = 1 =>
                  /\ lk.kind = "ok"
                  /\ lk.obj \in set_of(lk.coll)
                  /\ lower(lk.obj.name) = lower(lk.name)
           /\ count(lk.coll, lk.name) >= 2 => (lk.kind = "ValueError" /\ lk.obj = NoObj)
    /\ (ens.pc # "idle" /\ count(ens.before, ens.name) >= 2) =>
           /\ ens.pc \in {"lookup", "raised"}
           /\ ens.creates = 0
           /\ ens.pc = "raised" => (ens.exc = "ValueError" /\ ens.obj = NoObj)

C8_Witness ==
    /\ ens.pc = "raised"
    /\ ens.exc = "ValueError"
    /\ ens.name = N_ab
    /\ count(lk.coll, lk.name) = 2
    /\ posts = 0

\* C9: alias resolution returns the configured canonical value when the table
\* maps the raw value and the raw value itself otherwise, also when the table is
\* not configured; for a document type it returns the raw value.
C9_AliasResolutionTotal ==
    res.table # "" =>
        res.value =
            IF /\ res.table \in DOMAIN config.aliases
               /\ res.raw \in DOMAIN config.aliases[res.table]
            THEN config.aliases[res.table][res.raw]
            ELSE res.raw

C9_Witness ==
    /\ res.table = "correspondent"
    /\ "correspondent" \notin DOMAIN config.aliases
    /\ "account_holder" \in DOMAIN config.aliases
    /\ res.raw = N_Js
    /\ res.value = N_Js

\* ----------------------------------------------------------- sort_scanned
\* DocumentMetadata.original_producer of the file's Producer entries: types.py
\* 314-322
original_producer(entries) ==
    IF Len(entries) = 0 THEN [kind |-> "ok", value |-> NoneStr]
    ELSE IF Len(entries) > 1 THEN [kind |-> "ValueError", value |-> NoneStr]
    ELSE [kind |-> "ok", value |-> entries[1]]

\* main.py 318: producer and any(sw in producer for sw in cfg.scan_software)
is_scanned(cfg, value) ==
    /\ value # NoneStr
    /\ Len(value) > 0
    /\ \E i \in 1..Len(cfg.scan_software) : contains(value, cfg.scan_software[i])

\* sort_scanned before its loop: main.py 270-303
sort_scanned_setup(cfg, tgs, paths, only_inbox) ==
    LET conf == cfg.predefined_tags
        pconf == cfg.predefined_storage_paths
        absent == [kind |-> "ok", obj |-> NoObj]
        inbox == IF only_inbox THEN lookup_tag(tgs, conf["inbox"]) ELSE absent
        scanned == IF "scanned" \in DOMAIN conf
                   THEN lookup_tag(tgs, conf["scanned"]) ELSE absent
        spath == IF "scanned" \in DOMAIN pconf
                 THEN lookup_storage_path(paths, pconf["scanned"]) ELSE absent
        upath == IF "unsorted" \in DOMAIN pconf
                 THEN lookup_storage_path(paths, pconf["unsorted"]) ELSE absent
    IN
    IF only_inbox /\ "inbox" \notin DOMAIN conf THEN Exited("UsageError")
    ELSE IF Len(cfg.scan_software) = 0 THEN Exited("UsageError")
    ELSE IF inbox.kind # "ok" THEN Exited(inbox.kind)
    ELSE IF scanned.kind # "ok" THEN Exited(scanned.kind)
    ELSE IF spath.kind # "ok" THEN Exited(spath.kind)
    ELSE IF upath.kind # "ok" THEN Exited(upath.kind)
    ELSE [Idle EXCEPT !.cmd = "sort_scanned", !.only_inbox = only_inbox,
                      !.inbox = inbox.obj.id, !.scanned_tag = scanned.obj.id,
                      !.scanned_path = spath.obj.id, !.unsorted_path = upath.obj.id]

StartSortScanned ==
    /\ proc.cmd = "idle"
    /\ runs < MaxRuns
    /\ \E only_inbox \in BOOLEAN :
           /\ proc' = Begin(sort_scanned_setup(config, tags, storage_paths, only_inbox),
                            documents)
           /\ sorting' = [NoSorting EXCEPT
                             !.run = sorting.run + 1,
                             !.only_inbox = only_inbox,
                             !.same = sorting.run >= 1 /\ sorting.only_inbox = only_inbox,
                             !.first = IF proc.exc = "" THEN sorting.updated ELSE {}]
    /\ runs' = runs + 1
    /\ cache' = EmptyCache
    /\ UNCHANGED << execute, config, users, groups, tags, correspondents,
                    document_types, storage_paths, custom_fields, documents, pdf,
                    producer, posts, patches, last, ens, hidden, res, lk, setup, acf,
                    listing, crash >>

\* a variant of sort_scanned_skips that does not look for the scanned tag
sort_scanned_skips_untagged(p, doc) ==
    p.only_inbox /\ p.inbox \notin set_of(doc.tags)

\* main.py 308-313: the document is passed over without fetching its metadata
sort_scanned_skips(p, doc) ==
    \/ (p.only_inbox /\ p.inbox \notin set_of(doc.tags))
    \/ p.scanned_tag \in set_of(doc.tags)

\* a variant of sorted_document that moves the document whatever path it is in
sorted_document_anywhere(p, doc) ==
    [doc EXCEPT !.tags = IF p.scanned_tag # None THEN Append(@, p.scanned_tag) ELSE @,
                !.storage_path = p.scanned_path]

\* main.py 321-328: the document as sort_scanned leaves it in memory
sorted_document(p, doc) ==
    LET tagged == IF p.scanned_tag # None
                  THEN [doc EXCEPT !.tags = Append(@, p.scanned_tag)]
                  ELSE doc
    IN  IF \/ doc.storage_path = None
           \/ (p.scanned_path # None /\ doc.storage_path = p.unsorted_path)
        THEN [tagged EXCEPT !.storage_path = p.scanned_path]
        ELSE tagged

\* one turn of the loop: main.py 305-332
SortScannedStep ==
    /\ proc.cmd = "sort_scanned"
    /\ LET id == Head(proc.queue)
           rest == Tail(proc.queue)
           doc == documents[id]
           found == original_producer(producer[id])
           next == IF Len(rest) = 0 THEN Idle ELSE [proc EXCEPT !.queue = rest]
       IN  /\ IF sort_scanned_skips(proc, doc)
              THEN proc' = next /\ UNCHANGED << documents, patches >>
              ELSE IF found.kind # "ok"
              THEN proc' = Exited(found.kind) /\ UNCHANGED << documents, patches >>
              ELSE IF ~is_scanned(config, found.value)
              THEN proc' = next /\ UNCHANGED << documents, patches >>
              ELSE /\ proc' = next
                   /\ documents' = IF execute
                                   THEN [documents EXCEPT ![id] = sorted_document(proc, doc)]
                                   ELSE documents
                   /\ patches' = IF execute THEN patches + 1 ELSE patches
           /\ sorting' =
                  [sorting EXCEPT
                      !.seen = @ \cup {id},
                      !.fetched = IF sort_scanned_skips(proc, doc) THEN @ ELSE @ \cup {id},
                      !.updated = IF /\ ~sort_scanned_skips(proc, doc)
                                     /\ found.kind = "ok"
                                     /\ is_scanned(config, found.value)
                                     /\ execute
                                  THEN @ \cup {id} ELSE @]
    /\ UNCHANGED << execute, config, users, groups, tags, correspondents,
                    document_types, storage_paths, custom_fields, pdf, producer,
                    cache, posts, runs, last, ens, hidden, res, lk, setup, acf,
                    listing, crash >>

\* ------------------------------------------------------------ ensure_setup
\* PaperlessSession.default_owner, which ensure_setup reads and session.py does
\* not define: the user named by Config.object_owner
default_owner(usrs, cfg) ==
    LET found == SelectSeq(usrs, LAMBDA u : u.username = cfg.object_owner) IN
    IF Len(found) = 0 THEN [kind |-> "ObjectNotFound", obj |-> NoObj]
    ELSE IF Len(found) > 1 THEN [kind |-> "ValueError", obj |-> NoObj]
    ELSE [kind |-> "ok", obj |-> found[1]]

\* main.py 64-74: whether ensure_setup finds the object in need of repair
changed(obj, owner, group) ==
    group.id \notin obj.change_groups \/ obj.owner # owner.id

\* utils.py 23-58: only() of the fields of each well-known name
lookup_account_custom_fields(fields) ==
    LET named(name) == SelectSeq(fields, LAMBDA f : f.name = name)
        names == {ACCOUNT_HOLDER, ACCOUNT_NUMBER, DOCUMENT_NUMBER}
    IN  IF \E name \in names : Len(named(name)) > 1 THEN "ValueError"
        ELSE IF \E name \in names : Len(named(name)) = 0 THEN "ObjectNotFound"
        ELSE "ok"

\* the three well-known fields, in the order of utils.py 84-89
ACCOUNT_FIELDS == <<ACCOUNT_HOLDER, ACCOUNT_NUMBER, DOCUMENT_NUMBER>>

\* a variant of created_fields that creates all three fields whatever was seen
RECURSIVE created_fields_all(_, _, _)
created_fields_all(server, seen, names) ==
    IF Len(names) = 0 THEN server
    ELSE created_fields_all(Append(server, Field(MaxId(server) + 1, Head(names))),
                            seen, Tail(names))

\* utils.py 84-89: the server's fields after a POST for each of the names that
\* was not among the fields seen in the listing of utils.py 64
RECURSIVE created_fields(_, _, _)
created_fields(server, seen, names) ==
    IF Len(names) = 0 THEN server
    ELSE IF \E i \in 1..Len(seen) : seen[i].name = Head(names)
    THEN created_fields(server, seen, Tail(names))
    ELSE created_fields(Append(server, Field(MaxId(server) + 1, Head(names))),
                        seen, Tail(names))

\* the tuple lookup_account_custom_fields returns: utils.py 58
account_fields(fields) ==
    [i \in 1..3 |-> (SelectSeq(fields, LAMBDA f : f.name = ACCOUNT_FIELDS[i]))[1]]

\* utils.py 61-91 on a server holding `server` that listed `seen` and whose next
\* listing leaves out the created fields named in `hide`:
\* [kind, result, fields, created, posts]
ensure_account_custom_fields(server, seen, hide, nposts) ==
    LET made == created_fields(server, seen, ACCOUNT_FIELDS)
        created == SubSeq(made, Len(server) + 1, Len(made))
        relisted == seen \o SelectSeq(created, LAMBDA f : f.name \notin hide)
        found == lookup_account_custom_fields(relisted)
    IN  IF lookup_account_custom_fields(seen) = "ValueError"
        THEN [kind |-> "ValueError", result |-> <<>>, fields |-> server,
              created |-> <<>>, posts |-> nposts]
        ELSE [kind |-> found,
              result |-> IF found = "ok" THEN account_fields(relisted) ELSE <<>>,
              fields |-> made, created |-> created,
              posts |-> nposts + Len(created)]

\* main.py 129-135: the first configured tag whose lookup fails, "" for none
RECURSIVE predefined_tags_error(_, _, _)
predefined_tags_error(cfg, tgs, slots) ==
    IF Len(slots) = 0 THEN ""
    ELSE IF /\ Head(slots) \in DOMAIN cfg.predefined_tags
            /\ lookup_tag(tgs, cfg.predefined_tags[Head(slots)]).kind # "ok"
    THEN lookup_tag(tgs, cfg.predefined_tags[Head(slots)]).kind
    ELSE predefined_tags_error(cfg, tgs, Tail(slots))

\* ensure_setup: main.py 46-144.  [exc, fields, tags, posts, patches]; repairing an
\* object stops at groups.append, the groups being a set (types.py 49-59)
ensure_setup(exec, cfg, usrs, grps, tgs, corrs, types, fields, nposts, npatches) ==
    LET owner == default_owner(usrs, cfg)
        group == default_access_group(grps, cfg)
        objects == tgs \o corrs \o types
        tag_error == predefined_tags_error(cfg, tgs, <<"identified", "inbox", "scanned">>)
        looked == lookup_account_custom_fields(fields)
        made == ensure_account_custom_fields(fields, fields, {}, nposts)
        end(exc) == [exc |-> exc, fields |-> fields, tags |-> tgs,
                     posts |-> nposts, patches |-> npatches]
    IN
    IF owner.kind = "ObjectNotFound" THEN end("ClickException")
    ELSE IF owner.kind # "ok" THEN end(owner.kind)
    ELSE IF group.kind = "ObjectNotFound" THEN end("ClickException")
    ELSE IF group.kind # "ok" THEN end(group.kind)
    ELSE IF exec /\ \E i \in 1..Len(objects) : changed(objects[i], owner.obj, group.obj)
    THEN end("AttributeError")
    ELSE IF tag_error # "" THEN end(tag_error)
    ELSE IF looked = "ok" THEN end("")
    ELSE IF looked # "ObjectNotFound" THEN end(looked)
    ELSE IF ~exec THEN end("")
    ELSE [exc |-> IF made.kind = "ok" THEN "" ELSE made.kind, fields |-> made.fields,
          tags |-> tgs, posts |-> made.posts, patches |-> npatches]

EnsureSetup ==
    /\ proc.cmd = "idle"
    /\ runs < MaxRuns
    /\ LET out == ensure_setup(execute, config, users, groups, tags, correspondents,
                               document_types, custom_fields, posts, patches)
       IN  /\ proc' = Exited(out.exc)
           /\ custom_fields' = out.fields
           /\ tags' = out.tags
           /\ posts' = out.posts
           /\ patches' = out.patches
           /\ setup' = [called |-> TRUE, execute |-> execute, exc |-> out.exc,
                        owner |-> default_owner(users, config).obj.id,
                        group |-> default_access_group(groups, config).obj.id,
                        tags |-> tags, correspondents |-> correspondents,
                        document_types |-> document_types,
                        custom_fields |-> custom_fields,
                        posts |-> out.posts - posts,
                        patches |-> out.patches - patches]
    /\ runs' = runs + 1
    /\ cache' = EmptyCache
    /\ UNCHANGED << execute, config, users, groups, correspondents,
                    document_types, storage_paths, documents, pdf, producer, last,
                    ens, hidden, res, lk, acf, listing, crash, sorting >>

\* ------------------------------------------------- every command, in batches
\* the documents a server may hold when a command starts: an unidentified inbox
\* document, an identified one, a scanner-produced one in the unsorted path, and
\* one outside the inbox, in a path of its own, whose file cannot be parsed,
\* and an inbox document whose extracted service name makes no file name
Profiles ==
    << [tags |-> <<1>>, path |-> None, producer |-> <<>>,
        pdf |-> Extraction("none", << Components(<<N_js>>, N_Cd, N_In, V_123, NoneStr) >>)],
       [tags |-> <<1, 2>>, path |-> None, producer |-> << N_Cd >>,
        pdf |-> Extraction("none", << Components(<<N_AL>>, N_ab, N_In, NoneStr, NoneStr) >>)],
       [tags |-> <<1>>, path |-> 1, producer |-> << V_scan \o N_Cd >>,
        pdf |-> Extraction("none", <<>>)],
       [tags |-> <<>>, path |-> 3, producer |-> << V_scan >>,
        pdf |-> Extraction("PSEOF", <<>>)],
       [tags |-> <<1>>, path |-> None, producer |-> <<>>,
        pdf |-> Extraction("none", << Components(<<N_js>>, <<47>>, N_In, NoneStr, V_77) >>)] >>

\* which profile each document of the server has: no two documents alike, the
\* documents taken in the order of their profiles
Holdings ==
    { h \in [1..MaxDocs -> 1..Len(Profiles)] : \A i \in 1..(MaxDocs - 1) : h[i] < h[i + 1] }

Init ==
    /\ execute \in BOOLEAN
    /\ config \in { ConfigOf(("account_holder" :> (N_Js :> N_John)), AllTags),
                    ConfigOf(EmptyDict, ("inbox" :> N_inbox)) }
    /\ users = << [id |-> 1, username |-> N_me] >>
    /\ groups = << [id |-> 1, name |-> N_all] >>
    /\ tags = StandardTags
    /\ correspondents = <<>>
    /\ document_types = <<>>
    /\ storage_paths = StandardPaths
    /\ custom_fields \in { StandardFields, << Field(1, ACCOUNT_HOLDER) >> }
    /\ \E profile \in Holdings :
           /\ documents = [i \in 1..MaxDocs |->
                              Doc(i, Profiles[profile[i]].tags, <<>>,
                                  Profiles[profile[i]].path, MIME_PDF)]
           /\ pdf = [i \in 1..MaxDocs |-> Profiles[profile[i]].pdf]
           /\ producer = [i \in 1..MaxDocs |-> Profiles[profile[i]].producer]
    /\ cache = EmptyCache
    /\ proc = Idle
    /\ posts = 0
    /\ patches = 0
    /\ runs = 0
    /\ last = NoCall
    /\ ens = NoEnsure
    /\ hidden = {}
    /\ res = NoRes
    /\ lk = NoLookup
    /\ sorting = NoSorting
    /\ crash = NoCrash
    /\ listing = NoListing
    /\ acf = NoFields
    /\ setup = NoSetup

Next ==
    \/ EnsureSetup
    \/ StartIdentify
    \/ IdentifyStep
    \/ StartIdentifyAll
    \/ IdentifyAllStep
    \/ StartSortScanned
    \/ SortScannedStep

Spec == Init /\ [][Next]_vars

\* ------------------------------------------------------- batch properties
\* C4: in a dry run no command issues a create (POST) or an update (PATCH); in
\* either mode the pipeline issues no document update, and the driver issues one
\* only when execute is set and the pipeline returned a document
C4_DryRunIssuesNoRequests ==
    /\ ~execute => (posts = 0 /\ patches = 0)
    /\ last.called =>
           /\ last.pipeline_patches = 0
           /\ last.driver_patches = 1 => (last.execute /\ last.ret = "doc")
           /\ ~last.execute => last.posts = 0

\* a dry run in which the pipeline computed a new title and returned the
\* document, and the whole batch of commands has run
C4_Witness ==
    /\ ~execute
    /\ runs = MaxRuns
    /\ proc.cmd = "idle"
    /\ last.called
    /\ last.ret = "doc"
    /\ last.doc.title # last.before.title
    /\ last.driver_patches = 0

\* the id of the configured identified tag, None when there is none
identified_tag ==
    IF "identified" \in DOMAIN config.predefined_tags
    THEN lookup_tag(tags, config.predefined_tags["identified"]).obj.id
    ELSE None

\* C10: with an identified tag configured and the exclusion of identified
\* documents enabled, identify-all never runs the pipeline on a document that
\* already carries the identified tag
C10_IdentifiedDocumentsExcluded ==
    (/\ last.called
     /\ last.cmd = "identify_all"
     /\ last.exclude_identified
     /\ identified_tag # None)
        => identified_tag \notin set_of(last.before.tags)

\* the pipeline is about to be called on the next document of a batch
PipelineDue ==
    \/ proc.cmd = "identify"
    \/ (proc.cmd = "identify_all"
        /\ identify_all_selects(proc, documents[Head(proc.queue)]))

\* the failures of one document: no unique result, an extraction error, or a
\* file name that cannot be rendered
PerDocumentFailures == {"ValueError", "PSEOF", "IndexError", "InvalidFilenameError"}

\* C11: in a batch, a per-document failure (no unique extraction result, an
\* extraction error, an invalid file name) never ends the batch: the document
\* is passed over with nothing created or updated, and the batch goes on with
\* the documents after it, in their order
C11_FailureDoesNotAbortBatch ==
    [][ PipelineDue =>
          /\ last'.id = Head(proc.queue)
          /\ (lookup_account_custom_fields(custom_fields) = "ok"
                /\ ~(pdf[Head(proc.queue)].error = "none"
                     /\ Len(pdf[Head(proc.queue)].candidates) = 1))
                => last'.ret = "None"
          /\ last'.ret = "None" =>
                /\ last'.exc \in PerDocumentFailures
                /\ documents' = documents
                /\ correspondents' = correspondents
                /\ document_types' = document_types
                /\ posts' = posts
                /\ patches' = patches
                /\ proc' = IF Len(proc.queue) = 1 THEN Idle
                           ELSE [proc EXCEPT !.queue = Tail(proc.queue)] ]_vars

\* an execute-mode batch in which a document was updated after an earlier
\* document of the same batch had failed
C11_Witness ==
    /\ last.called
    /\ last.execute
    /\ last.failures >= 1
    /\ last.ret = "doc"
    /\ last.driver_patches = 1

\* ------------------------------------------------- ensure-setup on its own
N_other == <<111, 116>>

\* the tags a server may hold: in order; one owned by another user; one without
\* the access group and with another group; a configured one missing; two that
\* match one configured name
TagLists ==
    { StandardTags,
      << Obj(1, N_Inbox, 2, {1}), Obj(2, N_identified, 1, {1}), Obj(3, N_scanned, 1, {1}) >>,
      << Obj(1, N_Inbox, 1, {1}), Obj(2, N_identified, 1, {2}), Obj(3, N_scanned, 1, {1}) >>,
      << Obj(1, N_Inbox, 1, {1}), Obj(3, N_scanned, 1, {1}) >>,
      << Obj(1, N_Inbox, 1, {1}), Obj(2, N_identified, 1, {1}), Obj(3, N_scanned, 1, {1}),
         Obj(4, N_inbox, 1, {1}) >> }

CorrespondentLists ==
    { <<>>, << Obj(1, N_Ab, 1, {1}) >>, << Obj(1, N_Ab, None, {1}) >>,
      << Obj(1, N_Ab, 1, {1, 2}), Obj(2, N_Cd, 1, {2}) >> }

DocumentTypeLists == { <<>>, << Obj(1, N_In, 2, {1, 2}) >> }

FieldLists ==
    { StandardFields, << Field(1, ACCOUNT_HOLDER) >>, <<>>,
      << Field(1, ACCOUNT_HOLDER), Field(2, ACCOUNT_HOLDER) >> }

InitSetup ==
    /\ execute \in BOOLEAN
    /\ config \in { ConfigOf(EmptyDict, AllTags), ConfigOf(EmptyDict, ("inbox" :> N_inbox)) }
    /\ users \in { << [id |-> 1, username |-> N_me], [id |-> 2, username |-> N_other] >>,
                   << [id |-> 2, username |-> N_other] >> }
    /\ groups \in { << [id |-> 1, name |-> N_all], [id |-> 2, name |-> N_other] >>,
                    << [id |-> 2, name |-> N_other] >> }
    /\ tags \in TagLists
    /\ correspondents \in CorrespondentLists
    /\ document_types \in DocumentTypeLists
    /\ storage_paths = StandardPaths
    /\ custom_fields \in FieldLists
    /\ documents = <<>>
    /\ pdf = <<>>
    /\ producer = <<>>
    /\ cache = EmptyCache
    /\ proc = Idle
    /\ posts = 0
    /\ patches = 0
    /\ runs = 0
    /\ last = NoCall
    /\ ens = NoEnsure
    /\ hidden = {}
    /\ res = NoRes
    /\ lk = NoLookup
    /\ sorting = NoSorting
    /\ crash = NoCrash
    /\ listing = NoListing
    /\ acf = NoFields
    /\ setup = NoSetup

NextSetup == EnsureSetup

SpecSetup == InitSetup /\ [][NextSetup]_vars

\* the tags, correspondents and document types the last ensure-setup run found
setup_objects == setup.tags \o setup.correspondents \o setup.document_types

\* whether the last ensure-setup run got to its reconciliation loops
Reconciling == setup.called /\ setup.owner # None /\ setup.group # None

\* changed, as main.py 64-74 computes it, for an object the last run found
setup_changed(obj) == changed(obj, [id |-> setup.owner], [id |-> setup.group])

\* C12: an ensure-setup run persists an object exactly when changed and execute
\* hold, so that after an execute-mode run every tag, correspondent and document
\* type has the configured owner and the access group in its change.groups
C12_ChangedObjectsPersisted ==
    Reconciling =>
        /\ setup.patches =
               IF setup.execute
               THEN Cardinality({i \in 1..Len(setup_objects) : setup_changed(setup_objects[i])})
               ELSE 0
        /\ setup.execute =>
               \A i \in 1..Len(tags \o correspondents \o document_types) :
                   ~setup_changed((tags \o correspondents \o document_types)[i])

\* the object of the given id among the objects of a listing, NoObj when absent
by_id(coll, id) ==
    IF \E i \in 1..Len(coll) : coll[i].id = id
    THEN coll[CHOOSE i \in 1..Len(coll) : coll[i].id = id]
    ELSE NoObj

\* every user and group the object granted before is granted after
grantees_kept(before, after) ==
    /\ before.view_users \subseteq after.view_users
    /\ before.view_groups \subseteq after.view_groups
    /\ before.change_users \subseteq after.change_users
    /\ before.change_groups \subseteq after.change_groups

\* what one collection looks like after an additive repair of what the last
\* ensure-setup run found in it
additively_repaired(before, now) ==
    \A i \in 1..Len(before) :
        LET obj == before[i]
            after == by_id(now, obj.id)
        IN  IF setup.execute /\ setup_changed(obj)
            THEN /\ grantees_kept(obj, after)
                 /\ setup.group \in after.change_groups
                 /\ setup.patches >= 1
            ELSE after = obj

predefined_names == {config.predefined_tags[k] : k \in DOMAIN config.predefined_tags}

\* the predefined names no tag matched when the last ensure-setup run started
missing_tags == {n \in predefined_names : lookup_tag(setup.tags, n).kind = "ObjectNotFound"}

\* the last ensure-setup run got as far as the predefined tags (main.py 129),
\* and each predefined name matched at most one tag
AtPredefinedTags ==
    /\ Reconciling
    /\ setup.execute => \A i \in 1..Len(setup_objects) : ~setup_changed(setup_objects[i])
    /\ \A n \in predefined_names : lookup_tag(setup.tags, n).kind # "ValueError"

\* C14: ensure-setup creates, in execute mode, one tag for each predefined name
\* that matched no tag, and in a dry run only logs it; a predefined tag that
\* exists is not created again
C14_MissingPredefinedTagsCreated ==
    AtPredefinedTags =>
        /\ Len(tags) - Len(setup.tags) =
               IF setup.execute THEN Cardinality(missing_tags) ELSE 0
        /\ setup.execute => \A n \in predefined_names : lookup_tag(tags, n).kind = "ok"
        /\ setup.exc # "ObjectNotFound"

\* ---------------------------------------- ensure_account_custom_fields alone
\* one call of ensure_account_custom_fields (utils.py 61-91) against a server
\* whose next listing may leave out fields it has just created
EnsureAccountCustomFields ==
    /\ proc.cmd = "idle"
    /\ runs < MaxRuns
    /\ \E hide \in {{}, {ACCOUNT_NUMBER}, {DOCUMENT_NUMBER},
                    {ACCOUNT_HOLDER, DOCUMENT_NUMBER}} :
           LET seen == listed("custom_fields", custom_fields)
               out == ensure_account_custom_fields(custom_fields, seen, hide, posts)
           IN  /\ custom_fields' = out.fields
               /\ posts' = out.posts
               /\ hidden' = hidden \cup
                      { <<"custom_fields", out.created[i].id>> :
                          i \in {j \in 1..Len(out.created) : out.created[j].name \in hide} }
               /\ proc' = Exited(IF out.kind = "ok" THEN "" ELSE out.kind)
               /\ acf' = [called |-> TRUE, seen |-> seen, hide |-> hide,
                          kind |-> out.kind, result |-> out.result,
                          created |-> out.created, posts |-> out.posts - posts,
                          run |-> runs + 1]
    /\ runs' = runs + 1
    /\ UNCHANGED << execute, config, users, groups, tags, correspondents,
                    document_types, storage_paths, documents, pdf, producer, cache,
                    patches, last, ens, res, lk, setup, listing, crash, sorting >>

\* the custom fields a server may list before the call
AccountFieldLists ==
    { <<>>,
      << Field(1, ACCOUNT_HOLDER) >>,
      << Field(1, ACCOUNT_NUMBER) >>,
      << Field(1, N_Notes), Field(2, DOCUMENT_NUMBER) >>,
      << Field(1, ACCOUNT_HOLDER), Field(2, ACCOUNT_NUMBER) >>,
      << Field(1, DOCUMENT_NUMBER), Field(2, ACCOUNT_HOLDER) >>,
      << Field(1, lower(ACCOUNT_HOLDER)), Field(2, ACCOUNT_NUMBER),
         Field(3, DOCUMENT_NUMBER) >>,
      << Field(1, ACCOUNT_HOLDER), Field(2, ACCOUNT_HOLDER) >>,
      << Field(2, DOCUMENT_NUMBER) >>,
      << Field(3, ACCOUNT_NUMBER), Field(5, DOCUMENT_NUMBER) >>,
      StandardFields }

InitFields ==
    /\ execute = TRUE
    /\ config = ConfigOf(EmptyDict, AllTags)
    /\ users = << [id |-> 1, username |-> N_me] >>
    /\ groups = << [id |-> 1, name |-> N_all] >>
    /\ tags = StandardTags
    /\ correspondents = <<>>
    /\ document_types = <<>>
    /\ storage_paths = StandardPaths
    /\ custom_fields \in AccountFieldLists
    /\ documents = <<>>
    /\ pdf = <<>>
    /\ producer = <<>>
    /\ cache = EmptyCache
    /\ proc = Idle
    /\ posts = 0
    /\ patches = 0
    /\ runs = 0
    /\ last = NoCall
    /\ ens = NoEnsure
    /\ hidden = {}
    /\ res = NoRes
    /\ lk = NoLookup
    /\ sorting = NoSorting
    /\ crash = NoCrash
    /\ listing = NoListing
    /\ setup = NoSetup
    /\ acf = NoFields

NextFields == EnsureAccountCustomFields

SpecFields == InitFields /\ [][NextFields]_vars

\* the well-known names with no field of that name among the fields
absent_fields(fields) ==
    {n \in set_of(ACCOUNT_FIELDS) : \A i \in 1..Len(fields) : fields[i].name # n}

\* C15: ensure_account_custom_fields issues a create request for exactly those
\* of the three well-known fields that are absent, resolves all three again and
\* returns them; a field still absent after the creation is an ObjectNotFound
\* error, with no further create request
C15_CreatesExactlyAbsentFields ==
    (acf.called /\ acf.kind # "ValueError") =>
        /\ acf.posts = Cardinality(absent_fields(acf.seen))
        /\ Len(acf.created) = acf.posts
        /\ set_of([i \in 1..Len(acf.created) |-> acf.created[i].name])
               = absent_fields(acf.seen)
        /\ IF absent_fields(acf.seen) \cap acf.hide = {}
           THEN /\ acf.kind = "ok"
                /\ \A i \in 1..3 :
                       /\ acf.result[i].name = ACCOUNT_FIELDS[i]
                       /\ \/ acf.result[i] \in set_of(acf.seen)
                          \/ acf.result[i] \in set_of(acf.created)
           ELSE acf.kind = "ObjectNotFound"

\* a call that found one of the three fields and created the other two
C15_Witness ==
    /\ acf.called
    /\ acf.kind = "ok"
    /\ acf.posts = 2
    /\ Len(acf.seen) >= 1

\* --------------------------------------------------- the custom field cache
\* C16: within one session each of the three well-known custom fields is looked
\* up on the server at most once, on first use, and the field it resolved to is
\* reused for every later document; the cache loses no entry while the command
\* runs
C16_FieldsLookedUpOnce ==
    [][ /\ PipelineDue =>
             /\ \A f \in DOMAIN cache : f \in DOMAIN cache' /\ cache'[f] = cache[f]
             /\ last'.lookups <= Cardinality(set_of(ACCOUNT_FIELDS) \ DOMAIN cache)
             /\ last'.ret # "raise" => DOMAIN cache' = set_of(ACCOUNT_FIELDS)
             /\ \A f \in DOMAIN cache' :
                    /\ cache'[f] \in set_of(custom_fields)
                    /\ lower(cache'[f].name) = lower(f)
        /\ (\E f \in DOMAIN cache : f \notin DOMAIN cache') => proc.cmd = "idle" ]_vars

\* a document identified, later in a batch, without any request for a custom field
C16_Witness ==
    /\ last.called
    /\ DOMAIN last.cache = set_of(ACCOUNT_FIELDS)
    /\ last.lookups = 0
    /\ last.ret = "doc"

\* ------------------------------------------------------ sort-scanned alone
\* the documents a server may hold before sort-scanned: tags, storage path and
\* the Producer entries of the file
SortProfiles ==
    << [tags |-> <<1>>, path |-> 1, producer |-> << V_scan \o N_Cd >>],
       [tags |-> <<1>>, path |-> 3, producer |-> << N_Cd \o V_scan >>],
       [tags |-> <<1>>, path |-> None, producer |-> << V_scan >>],
       [tags |-> <<1, 3>>, path |-> 1, producer |-> << V_scan >>],
       [tags |-> <<>>, path |-> 1, producer |-> << V_scan >>],
       [tags |-> <<1>>, path |-> 1, producer |-> << N_Cd >>],
       [tags |-> <<1>>, path |-> 1, producer |-> <<>>],
       [tags |-> <<1>>, path |-> 1, producer |-> << V_scan, V_scan >>] >>

\* the storage-path slots a configuration may fill
PathSlots ==
    { ("unsorted" :> <<117, 110>>) @@ ("scanned" :> N_scanned),
      ("unsorted" :> <<117, 110>>),
      ("scanned" :> N_scanned) }

InitSort ==
    /\ execute \in BOOLEAN
    /\ \E slots \in PathSlots, predefined \in {AllTags, ("inbox" :> N_inbox)} :
           config = [ConfigOf(EmptyDict, predefined) EXCEPT
                        !.predefined_storage_paths = slots]
    /\ users = << [id |-> 1, username |-> N_me] >>
    /\ groups = << [id |-> 1, name |-> N_all] >>
    /\ tags = StandardTags
    /\ correspondents = <<>>
    /\ document_types = <<>>
    /\ storage_paths = StandardPaths
    /\ custom_fields = StandardFields
    /\ \E profile \in [1..MaxDocs -> 1..Len(SortProfiles)] :
           /\ documents = [i \in 1..MaxDocs |->
                              Doc(i, SortProfiles[profile[i]].tags, <<>>,
                                  SortProfiles[profile[i]].path, MIME_PDF)]
           /\ producer = [i \in 1..MaxDocs |-> SortProfiles[profile[i]].producer]
    /\ pdf = [i \in 1..MaxDocs |-> Extraction("none", <<>>)]
    /\ cache = EmptyCache
    /\ proc = Idle
    /\ posts = 0
    /\ patches = 0
    /\ runs = 0
    /\ last = NoCall
    /\ ens = NoEnsure
    /\ hidden = {}
    /\ res = NoRes
    /\ lk = NoLookup
    /\ sorting = NoSorting
    /\ crash = NoCrash
    /\ listing = NoListing
    /\ setup = NoSetup
    /\ acf = NoFields

NextSort == StartSortScanned \/ SortScannedStep

SpecSort == InitSort /\ [][NextSort]_vars

\* what holds of every document a sort-scanned step changes, moved(doc) saying
\* from which storage paths a document may be moved: only the next document of
\* the listing changes, in execute mode, when it is scanner-produced and lacks
\* the scanned tag; it gains the scanned tag, and its storage path changes only
\* if moved allows it, and then to the scanned path
SortChanges(moved(_)) ==
    proc.cmd = "sort_scanned" =>
        \A i \in DOMAIN documents :
            documents'[i] # documents[i] =>
                /\ i = Head(proc.queue)
                /\ execute
                /\ proc.scanned_tag \notin set_of(documents[i].tags)
                /\ is_scanned(config, original_producer(producer[i]).value)
                /\ documents'[i].tags \in
                       {documents[i].tags, Append(documents[i].tags, proc.scanned_tag)}
                /\ documents'[i].storage_path # documents[i].storage_path =>
                       /\ moved(documents[i])
                       /\ documents'[i].storage_path = proc.scanned_path
                       /\ proc.scanned_path # None

\* the document is in the configured unsorted path
InUnsorted(doc) ==
    proc.unsorted_path # None /\ doc.storage_path = proc.unsorted_path

\* the document has no storage path
Unplaced(doc) == doc.storage_path = None

\* C17 as stated: sort-scanned tags and relocates a scanner-produced document
\* only if it lacks the scanned tag, and changes a storage path only when it is
\* the configured unsorted path
C17_MovedOnlyFromUnsorted ==
    [][ SortChanges(InUnsorted) ]_vars

\* C17, amended: ... and changes a storage path only when the document has no
\* storage path or is in the configured unsorted path; a document in any other
\* path keeps it
C17_MovedOnlyFromUnsortedOrNone ==
    [][ SortChanges(LAMBDA doc : InUnsorted(doc) \/ Unplaced(doc)) ]_vars

\* an execute-mode run has tagged two scanner-produced documents: one is now in
\* the scanned path, the other is still in its custom path
C17_Witness ==
    /\ execute
    /\ patches >= 2
    /\ \E i, j \in DOMAIN documents :
           /\ documents[i].storage_path = 2
           /\ 3 \in set_of(documents[i].tags)
           /\ documents[j].storage_path = 3
           /\ 3 \in set_of(documents[j].tags)

\* ------------------------------------------------------ paginated listings
\* no continuation reference: None or the empty string
NoRef == Url("", "", <<"">>, "")

\* a variant of _fix_next_url that hands the reference on as it came
fix_next_url_verbatim(next_url) == next_url

\* _fix_next_url: session.py 161-180; the reference less its scheme and host,
\* NoRef standing for None
fix_next_url(next_url) ==
    IF next_url = NoRef THEN NoRef
    ELSE Url("", "", next_url.path, next_url.query)

\* how urlparse reads back the string urlunparse made of a reference without
\* scheme and host: a path that starts with "//" is read as a host by an
\* interpreter that writes it as it is, and as a path by one that writes it
\* with "//" in front
reparsed(url, reading) ==
    IF /\ url.scheme = "" /\ url.netloc = ""
       /\ Len(url.path) >= 3 /\ url.path[1] = "" /\ url.path[2] = ""
       /\ reading = "netloc"
    THEN Url("", url.path[3], <<"">> \o SubSeq(url.path, 4, Len(url.path)), url.query)
    ELSE url

\* urljoin's removal of "." and ".." segments
RECURSIVE resolved_path(_, _)
resolved_path(segments, done) ==
    IF Len(segments) = 0 THEN done
    ELSE IF Head(segments) = ".."
    THEN resolved_path(Tail(segments),
                       IF Len(done) = 0 THEN done ELSE SubSeq(done, 1, Len(done) - 1))
    ELSE IF Head(segments) = "." THEN resolved_path(Tail(segments), done)
    ELSE resolved_path(Tail(segments), Append(done, Head(segments)))

\* urljoin's segments[1:-1] = filter(None, segments[1:-1])
interior_filtered(segments) ==
    IF Len(segments) <= 2 THEN segments
    ELSE <<segments[1]>>
             \o SelectSeq(SubSeq(segments, 2, Len(segments) - 1), LAMBDA seg : seg # "")
             \o <<segments[Len(segments)]>>

\* urllib.parse.urljoin(base, url) for an http(s) base
urljoin(base, url) ==
    IF url.scheme # "" /\ url.scheme # base.scheme THEN url
    ELSE IF url.netloc # "" THEN Url(base.scheme, url.netloc, url.path, url.query)
    ELSE IF url.path = <<"">>
    THEN Url(base.scheme, base.netloc, base.path,
             IF url.query = "" THEN base.query ELSE url.query)
    ELSE
    LET base_parts == IF base.path[Len(base.path)] # ""
                      THEN SubSeq(base.path, 1, Len(base.path) - 1)
                      ELSE base.path
        segments == IF url.path[1] = "" /\ Len(url.path) > 1
                    THEN url.path
                    ELSE interior_filtered(base_parts \o url.path)
        resolved == resolved_path(segments, <<>>)
        closed == IF segments[Len(segments)] \in {".", ".."}
                  THEN Append(resolved, "") ELSE resolved
    IN  Url(base.scheme, base.netloc,
            IF closed \in {<<>>, <<"">>} THEN <<"", "">> ELSE closed, url.query)

\* _api_path: session.py 110-112
api_path(cfg) == urljoin(cfg.url, Url("", "", <<"api", "">>, ""))

\* str.startswith of a URL and the URL of a directory (one that ends in "/")
startswith(url, prefix) ==
    /\ url.scheme = prefix.scheme
    /\ url.netloc = prefix.netloc
    /\ Len(url.path) >= Len(prefix.path)
    /\ \A i \in 1..(Len(prefix.path) - 1) : url.path[i] = prefix.path[i]

\* _normalize_path: session.py 114-119
normalize_path(cfg, path) ==
    LET url == urljoin(cfg.url, path) IN
    IF startswith(url, api_path(cfg)) THEN [kind |-> "ok", url |-> url]
    ELSE [kind |-> "ValueError", url |-> url]

\* starting_path of _get_objects for tags: session.py 189
STARTING_PATH == Url("", "", <<"", "api", "tags", "">>, "")

\* the continuation references a server may supply
NextRefs ==
    { NoRef,
      Url("http", "server", <<"", "api", "tags", "">>, "page=2"),
      Url("https", "server", <<"", "api", "tags", "">>, "page=3"),
      Url("http", "other", <<"", "api", "tags", "">>, "page=2"),
      Url("", "", <<"", "api", "tags", "">>, "page=2"),
      Url("http", "server", <<"", "api", "..", "admin", "">>, ""),
      Url("http", "server", <<"", "", "other", "api", "tags", "">>, "page=2"),
      Url("http", "server", <<"", "paperless", "api", "tags", "">>, "page=2"),
      Url("http", "server", <<"", "apiary", "">>, ""),
      Url("http", "server", <<"">>, "page=2"),
      Url("http", "server", <<"">>, "") }

\* _get_objects up to its first response: session.py 182-199
ListStart ==
    /\ listing.pc \in {"idle", "done", "raised"}
    /\ runs < MaxRuns
    /\ runs' = runs + 1
    /\ LET first == normalize_path(config, STARTING_PATH) IN
       IF first.kind # "ok"
       THEN listing' = [NoListing EXCEPT !.pc = "raised", !.rejected = first.url]
       ELSE \E next \in NextRefs :
                listing' = [NoListing EXCEPT !.pc = "page", !.sent = <<first.url>>,
                                            !.next = next]
    /\ UNCHANGED << execute, config, users, groups, tags, correspondents,
                    document_types, storage_paths, custom_fields, documents, pdf,
                    producer, cache, proc, posts, patches, last, ens, hidden, res,
                    lk, setup, acf, crash, sorting >>

\* one turn of the loop of session.py 199-201
ListContinue ==
    /\ listing.pc = "page"
    /\ \E reading \in {"netloc", "path"}, next \in NextRefs :
           LET next_url == fix_next_url(listing.next)
               target == normalize_path(config, reparsed(next_url, reading))
           IN  IF next_url = NoRef
               THEN listing' = [listing EXCEPT !.pc = "done",
                                               !.given = listing.next # NoRef]
               ELSE IF target.kind # "ok"
               THEN listing' = [listing EXCEPT !.pc = "raised", !.given = TRUE,
                                               !.followed = listing.next,
                                               !.rejected = target.url]
               ELSE /\ Len(listing.sent) >= MaxPages => next = NoRef
                    /\ listing' = [listing EXCEPT !.sent = Append(@, target.url),
                                                  !.followed = listing.next,
                                                  !.given = TRUE,
                                                  !.next = next]
    /\ UNCHANGED << execute, config, users, groups, tags, correspondents,
                    document_types, storage_paths, custom_fields, documents, pdf,
                    producer, cache, proc, posts, patches, runs, last, ens, hidden,
                    res, lk, setup, acf, crash, sorting >>

\* the server URLs a configuration may name
ServerUrls ==
    { SERVER_URL,
      Url("https", "server", <<"">>, ""),
      Url("http", "server", <<"", "">>, ""),
      Url("https", "server", <<"", "paperless", "">>, "") }

InitListing ==
    /\ execute = FALSE
    /\ \E url \in ServerUrls : config = [ConfigOf(EmptyDict, AllTags) EXCEPT !.url = url]
    /\ users = << [id |-> 1, username |-> N_me] >>
    /\ groups = << [id |-> 1, name |-> N_all] >>
    /\ tags = StandardTags
    /\ correspondents = <<>>
    /\ document_types = <<>>
    /\ storage_paths = StandardPaths
    /\ custom_fields = StandardFields
    /\ documents = <<>>
    /\ pdf = <<>>
    /\ producer = <<>>
    /\ cache = EmptyCache
    /\ proc = Idle
    /\ posts = 0
    /\ patches = 0
    /\ runs = 0
    /\ last = NoCall
    /\ ens = NoEnsure
    /\ hidden = {}
    /\ res = NoRes
    /\ lk = NoLookup
    /\ sorting = NoSorting
    /\ crash = NoCrash
    /\ setup = NoSetup
    /\ acf = NoFields
    /\ listing = NoListing

NextListing == ListStart \/ ListContinue

SpecListing == InitListing /\ [][NextListing]_vars

\* the reference as the listing reuses it: its path and query alone
stripped(ref) == Url("", "", ref.path, ref.query)

\* the URLs a stripped reference may resolve to against the configured server
resolutions(ref) ==
    { urljoin(config.url, reparsed(stripped(ref), reading)) :
          reading \in {"netloc", "path"} }

\* the URL lies under the api/ path of the configured server
under_api_root(url) ==
    /\ url.scheme = config.url.scheme
    /\ url.netloc = config.url.netloc
    /\ startswith(url, urljoin(config.url, Url("", "", <<"api", "">>, "")))

\* C18: every request of a paginated listing, continuation requests included,
\* goes to the scheme and host of the configured server URL and under its api/
\* path, whatever scheme and host the continuation reference carries: a
\* reference whose path resolves under the API root is followed there with its
\* query, one whose path resolves outside it is rejected with no request
\* sent, and the listing ends without a request when the server supplies no
\* continuation reference.
C18_ListingStaysOnConfiguredServer ==
    [][ /\ \A i \in 1..Len(listing'.sent) : under_api_root(listing'.sent[i])
        /\ listing.pc = "page" /\ listing.next = NoRef
               => listing'.pc = "done" /\ listing'.sent = listing.sent
        /\ listing.pc = "page" /\ stripped(listing.next) # NoRef
               => \E url \in resolutions(listing.next) :
                      IF under_api_root(url)
                      THEN /\ listing'.pc = "page"
                           /\ listing'.sent = Append(listing.sent, url)
                      ELSE /\ listing'.pc = "raised"
                           /\ listing'.rejected = url
                           /\ listing'.sent = listing.sent
        /\ listing'.pc = "raised" => ~under_api_root(listing'.rejected)
      ]_vars

\* a listing followed a continuation reference that named another scheme and
\* host, with a request to the configured server
C18_Witness ==
    /\ listing.pc \in {"page", "done"}
    /\ Len(listing.sent) >= 2
    /\ listing.followed.scheme # config.url.scheme
    /\ listing.followed.netloc # config.url.netloc
    /\ listing.sent[Len(listing.sent)].netloc = config.url.netloc

\* ------------------------------------------------- interrupted pipeline runs
\* the round trips of identify.py 66-71 and main.py 179-181 a run can be cut
\* between: after ensure_correspondent, after ensure_document_type, before
\* update_document
InterruptionPoints == {"correspondent", "document_type", "update"}

\* what the server holds when a run that would have gone through to the update
\* is cut at that point: the correspondent is there from the first point on,
\* the document type from the second, the document is as it was
interrupted(at, env, out) ==
    [correspondents |-> out.env.correspondents,
     document_types |-> IF at = "correspondent" THEN env.document_types
                        ELSE out.env.document_types,
     posts |-> IF at = "correspondent"
               THEN env.posts + Len(out.env.correspondents) - Len(env.correspondents)
               ELSE out.env.posts]

\* the process running identify --execute dies at one of the points
Interrupted(id, at, out) ==
    /\ updates(execute, out)
    /\ correspondents' = interrupted(at, Env, out).correspondents
    /\ document_types' = interrupted(at, Env, out).document_types
    /\ posts' = interrupted(at, Env, out).posts
    /\ cache' = EmptyCache
    /\ proc' = Exited("Interrupted")
    /\ crash' = [at |-> at, id |-> id, run |-> runs, before |-> documents[id],
                 correspondents |-> interrupted(at, Env, out).correspondents,
                 document_types |-> interrupted(at, Env, out).document_types,
                 created |-> interrupted(at, Env, out).posts - posts,
                 whole |-> [doc |-> out.doc,
                            correspondents |-> out.env.correspondents,
                            document_types |-> out.env.document_types]]

Interrupt ==
    /\ proc.cmd = "identify"
    /\ \E at \in InterruptionPoints :
           Interrupted(Head(proc.queue), at,
                       identify_document(execute, config, documents[Head(proc.queue)],
                                         pdf[Head(proc.queue)], Env))
    /\ UNCHANGED << execute, config, users, groups, tags, storage_paths,
                    custom_fields, documents, pdf, producer, patches, runs, last,
                    ens, hidden, res, lk, setup, acf, listing, sorting >>

InitRecovery == InitPipeline /\ execute = TRUE

NextRecovery == StartIdentify \/ IdentifyStep \/ Interrupt

SpecRecovery == InitRecovery /\ [][NextRecovery]_vars

\* the pipeline is about to run again on the document of the interrupted run,
\* from the server state the interruption left
RerunDue ==
    /\ crash.at # ""
    /\ proc.cmd = "identify"
    /\ Head(proc.queue) = crash.id
    /\ correspondents = crash.correspondents
    /\ document_types = crash.document_types
    /\ documents[crash.id] = crash.before

\* C19: when an execute-mode run is interrupted after the correspondent was
\* created, after the document type was created or before the document update,
\* running the pipeline again on the same document from the resulting server
\* state creates no second correspondent or document type and leaves the
\* document with the title, date, correspondent and document type of the
\* uninterrupted run.
C19_RerunAfterInterruption ==
    [][ RerunDue /\ crash' = crash =>
          /\ correspondents' = crash.whole.correspondents
          /\ document_types' = crash.whole.document_types
          /\ posts' - posts = Len(crash.whole.correspondents) - Len(correspondents)
                                + Len(crash.whole.document_types) - Len(document_types)
          /\ documents'[crash.id].title = crash.whole.doc.title
          /\ documents'[crash.id].created_date = crash.whole.doc.created_date
          /\ documents'[crash.id].correspondent = crash.whole.doc.correspondent
          /\ documents'[crash.id].document_type = crash.whole.doc.document_type
      ]_vars

\* a run that had created its correspondent was interrupted, and the run after
\* it went through on the same document
C19_Witness ==
    /\ crash.at = "correspondent"
    /\ crash.created = 1
    /\ last.called
    /\ last.run = crash.run + 1
    /\ last.id = crash.id
    /\ last.before = crash.before
    /\ last.posts = 1
    /\ documents[crash.id].correspondent = crash.whole.doc.correspondent
    /\ documents[crash.id].document_type # None

\* ------------------------------------------------------ claims: creation
\* the entities a step added to a collection
created_in(before, after) == SubSeq(after, Len(before) + 1, Len(after))

\* the entity has the configured owner and the access group among its viewers
\* and editors, so that ensure_setup finds nothing to repair in it
created_with_defaults(obj) ==
    /\ default_owner(users, config).kind = "ok"
    /\ default_access_group(groups, config).kind = "ok"
    /\ obj.owner = default_owner(users, config).obj.id
    /\ default_access_group(groups, config).obj.id \in obj.view_groups
    /\ default_access_group(groups, config).obj.id \in obj.change_groups
    /\ ~changed(obj, default_owner(users, config).obj,
                default_access_group(groups, config).obj)

\* C20: every tag, correspondent and document type the program creates has the
\* configured default owner and the default access group in its view.groups
\* and change.groups, so that a later ensure-setup run computes changed = false
\* for it.
C20_CreatedWithDefaultOwnerAndGroup ==
    [][ \A obj \in set_of(created_in(tags, tags'))
                     \cup set_of(created_in(correspondents, correspondents'))
                     \cup set_of(created_in(document_types, document_types')) :
            created_with_defaults(obj)
      ]_vars

\* ------------------------------------ custom fields: setup, then the pipeline
\* a server with one identifiable document, on which ensure_account_custom_fields
\* and identify --execute run in any order
InitAgree ==
    /\ execute = TRUE
    /\ config = ConfigOf(EmptyDict, AllTags)
    /\ users = << [id |-> 1, username |-> N_me] >>
    /\ groups = << [id |-> 1, name |-> N_all] >>
    /\ tags = StandardTags
    /\ correspondents = <<>>
    /\ document_types = <<>>
    /\ storage_paths = StandardPaths
    /\ custom_fields \in AccountFieldLists
    /\ documents \in { (1 :> Doc(1, <<1>>, v, None, MIME_PDF)) : v \in ValueLists }
    /\ pdf \in [{1} -> { Extraction("none", <<c>>) : c \in ComponentsSet }]
    /\ producer = (1 :> <<>>)
    /\ cache = EmptyCache
    /\ proc = Idle
    /\ posts = 0
    /\ patches = 0
    /\ runs = 0
    /\ last = NoCall
    /\ ens = NoEnsure
    /\ hidden = {}
    /\ res = NoRes
    /\ lk = NoLookup
    /\ sorting = NoSorting
    /\ crash = NoCrash
    /\ listing = NoListing
    /\ setup = NoSetup
    /\ acf = NoFields

NextAgree == EnsureAccountCustomFields \/ StartIdentify \/ IdentifyStep

SpecAgree == InitAgree /\ [][NextAgree]_vars

\* the pipeline has run on a document after a successful
\* ensure_account_custom_fields, and no command was started since
IdentifiedAfterSetup ==
    /\ acf.called
    /\ acf.kind = "ok"
    /\ last.called
    /\ last.run > acf.run
    /\ last.run = runs

\* C21: setup and the pipeline agree on which custom fields exist: whenever
\* ensure_account_custom_fields / lookup_account_custom_fields has succeeded on
\* the server's fields, names differing from the well-known ones only in letter
\* case included, cached_custom_field resolves each of the three well-known
\* fields to exactly one field of the server and fails neither as not found nor
\* as ambiguous.
C21_SetupAndPipelineAgreeOnFields ==
    IdentifiedAfterSetup =>
        /\ last.ret # "raise"
        /\ DOMAIN cache = set_of(ACCOUNT_FIELDS)
        /\ \A f \in DOMAIN cache :
               /\ cache[f] \in set_of(custom_fields)
               /\ \A g \in set_of(custom_fields) : lower(g.name) = lower(f) => g = cache[f]

\* ------------------------------------------------- claims: sort-scanned twice
\* a step of a sort-scanned run that follows a completed run with the same
\* options
SecondSortStep ==
    /\ proc.cmd = "sort_scanned"
    /\ sorting.run >= 2
    /\ sorting.same
    /\ sorting' # sorting

\* the run leaves the tags and the storage path of every document as they are
SortLeavesPlacement ==
    \A i \in DOMAIN documents :
        /\ documents'[i].tags = documents[i].tags
        /\ documents'[i].storage_path = documents[i].storage_path

\* the run has neither fetched the metadata of a document the run before it
\* updated nor sent an update for it
SortPassesOverUpdated ==
    /\ sorting'.first \cap sorting'.fetched = {}
    /\ sorting'.first \cap sorting'.updated = {}
    /\ Head(proc.queue) \in sorting.first => patches' = patches

\* C22 as stated: after a completed execute-mode sort-scanned run, a second run
\* over the same server state fetches no metadata and sends no update for any
\* document the first run updated, and leaves every document's tags and storage
\* path unchanged
C22_SecondSortRunIdle ==
    [][ SecondSortStep => SortPassesOverUpdated /\ SortLeavesPlacement ]_vars

\* C22, amended: ... with a scanned tag configured, the second run fetches no
\* metadata and sends no update for any document the first run updated; with
\* or without one, it leaves every document's tags and storage path unchanged
C22_SecondSortRunIdleWhenTagged ==
    [][ SecondSortStep =>
            /\ proc.scanned_tag # None => SortPassesOverUpdated
            /\ SortLeavesPlacement ]_vars

\* with a scanned tag configured, a second run has come to a document the first
\* run updated
C22_Witness ==
    /\ execute
    /\ sorting.run = 2
    /\ sorting.same
    /\ "scanned" \in DOMAIN config.predefined_tags
    /\ sorting.first \cap sorting.seen # {}
    /\ \E i \in sorting.first : 3 \in set_of(documents[i].tags)

====
